---- MODULE Spec2Model ----
(***************************************************************************)
(* Model of the deployment pipeline of serversguru-deploy:                 *)
(*   DeploymentOrchestrator (orchestrator.ts) driving                      *)
(*   SshProvisioner (ssh/provisioner.ts) and ServersGuruClient             *)
(*   (api/servers-guru.ts).                                                *)
(*                                                                         *)
(* One orchestrator instance is modelled.  Its fields, the fields of the   *)
(* session it owns and the position of the running deploy() /              *)
(* deployToExisting() call are the state.  Every private stage method is   *)
(* one action; what the provider, the remote host and the progress         *)
(* callback answer is chosen nondeterministically.                         *)
(***************************************************************************)
EXTENDS Integers, Sequences, FiniteSets, TLC

\* ------------------------------------------------------------------ bounds
MaxRuns == 2                 \* calls of deploy()/deployToExisting()/rollback() per behaviour
HealthCheckRetries == 2      \* config.options.healthCheckRetries
MaxConnects == 3             \* calls of SshProvisioner.connect() per behaviour
MaxCommands == 2             \* commands in the list passed to execAll()

\* ------------------------------------------------------- program constants
ContainerMaxAttempts == 30   \* waitForContainerHealth: maxAttempts
RollbackTimeout == 300000    \* rollback: the timeout it passes to waitForStatus (ms)
DefaultPollInterval == 10000 \* waitForStatus: pollInterval when none is passed (ms)
DefaultTimeout == 600000     \* waitForStatus: timeout when none is passed (ms)
CommandTimeout == 300000     \* SshProvisioner: commandTimeout when none is configured (ms)
SshWaitTimeout == 300000     \* waitForSsh: timeout when none is passed (ms)
RetryInterval == 5000        \* waitForSsh: retryInterval when none is passed (ms)
ProbeTimeout == 5000         \* waitForSsh: the socket timeout it passes to checkPort (ms)
GraceDelay == 2000           \* waitForSsh: the wait after a successful probe (ms)
OrderMaxAttempts == 12       \* orderVps: maxAttempts of the search for the new server
SnapshotMaxAttempts == 6     \* createSnapshot: maxAttempts of the search

\* ------------------------------------------------------------ value spaces
Undef == -1                  \* an unset optional field (undefined)
EmptyIp == 0                 \* the empty string as an address
Balances == {0 - 5, 0, 5}    \* values getBalance may return
ExistingIds == {50}          \* serverId arguments of deployToExisting
ExistingIps == {150}         \* serverIp arguments of deployToExisting
IpOf(id) == 100 + id         \* address the provider reports for resource id
SnapshotArgs == {900}        \* snapshotId arguments of rollback
Statuses == {"running", "stopped", "error"}  \* what getServerStatus may report
Accounts == {{}, {50}, {50, 51}}  \* ids of the servers an account may hold
FreshIds == {1, 2}           \* ids the provider gives to new servers
OrderResponses == {"data", "success", "error", "failure", "unexpected"}
                             \* shapes of the answer to the order request
SnapshotLists == {{}, {900}, {900, 901}}  \* ids of the snapshots a server may have
FreshSnapshots == {910}      \* ids the provider gives to new snapshots
SnapshotStatuses == {"creating", "active"}  \* status of a listed snapshot
Timestamps == {1700, 1701}   \* values of Date.now()
Placeholders == {1700}       \* Date.now() when createSnapshot gives up its search
CreateResponses == {"data", "success", "failure"}
                             \* shapes of the answer to the create request
Operations == {"getBalance", "getProducts", "getImages", "listServers",
               "getServer", "getServerStatus", "powerAction", "listSnapshots",
               "deleteSnapshot", "restoreSnapshot", "setReverseDns",
               "cancelServer"}   \* client operations that make one request
HttpStatuses == {400, 401, 404, 500, 503}  \* non-success status codes
WaitTargets == {"running", "stopped", "error"}  \* targetStatus arguments
ExitCodes == {0, 1, 127, Undef}   \* Undef: no exit code (ended by a signal)
Outputs == {[stdout |-> "done\n", stderr |-> ""],
            [stdout |-> " ", stderr |-> "oops\n"]}
TimeoutOverrides == {Undef, 1000}
RemoteTimes == {500, 1000, 5000, 400000}
SshWaitTimeouts == {0, 4000, 12000, SshWaitTimeout}
ProbeTimes == {0, ProbeTimeout}
WaitTimeouts == {0, 15000, 40000, DefaultTimeout}
                             \* options.timeout arguments, or none (ms)
RequestTimes == {0, 10000}   \* time one status request may take (ms)

VARIABLES
  \* DeploymentOrchestrator fields
  config,          \* [domain, createSnapshot]: the validated configuration
  onProgress,      \* TRUE iff a progress callback is set
  serverId, serverIp, snapshotId,
  logs,            \* the entries of this.logs that record a failure (as a set;
                   \* the informational entries are not kept)
  errors,          \* this.errors, in order
  \* SshProvisioner fields
  client,          \* "null" | "live" | "dead"
  sftpClient,      \* "null" | "unestablished" | "open"
  connected,
  \* the running call
  entry,           \* "none" | "deploy" | "existing" | "rollback"
  pc,              \* next stage of the running call, "finally", or "idle"
  i,               \* loop counter of the polling loop in progress
  argId, argIp,    \* parameters of deployToExisting
  healthCheckPassed, \* the local of deploy()/deployToExisting()
  pending,         \* value of the return statement reached in try / catch
  outcome,         \* "none" | "result" | "exception": how the last call ended
  result,          \* the record the last call returned
  \* provider
  nextId, nextSnap,
  \* observation of the running call (history)
  runs,            \* calls started so far
  stagesRun,       \* stages entered by this call, in order
  notified,        \* steps passed to progress() by this call, in order
  apiCalls,        \* provisioning-API operations invoked by this call, in order
  disconnectCalls, \* disconnect() calls made by the orchestrator in this call
  failure,         \* [stage, kind, msg]: what reached the catch block
  softFailed,      \* of Certificate, HealthCheck, Snapshot: those whose own
                   \* operation failed in this call
  balanceSeen,     \* value getBalance returned in this call
  runOrder,        \* id returned by orderVps in this call
  runSnapshots,    \* ids returned by createSnapshot in this call
  probes,          \* outcomes of the health probes of this call
  inspected,       \* what the latest poll of waitForContainerHealth got
                   \* (kept until the next step of the call)
  atStart,         \* the fields and the length of errors when the call started
  \* the running rollback() call and the waitForStatus() call in progress
  rb,              \* [snap, restore, outcome, error]
  ws,              \* [pc, target, timeout, elapsed, last, outcome]; last is
                   \* the status the latest poll returned
  \* ServersGuruClient operations called directly
  ord,             \* an orderVps() call and the account it orders in;
                   \* posts counts the order requests it has sent
  ord2,            \* a second orderVps() call, made by another client on
                   \* the account of ord while the call of ord runs
  cs,              \* a createSnapshot() call and the snapshots of its server
  req,             \* a client operation and the request() it makes
  \* SshProvisioner used directly
  ssh,             \* the fields of a session, its transports and their timers
  ex,              \* an exec(), execOrFail() or execAll() call on the session
  wf               \* a SshProvisioner.waitForSsh() call; invalid: it was
                   \* given a port or host that socket.connect refuses;
                   \* onRetry: the attempt numbers passed to options.onRetry

orchVars == <<config, onProgress, serverId, serverIp, snapshotId, logs, errors,
          client, sftpClient, connected, entry, pc, i, argId, argIp,
          healthCheckPassed, pending,
          outcome, result, nextId, nextSnap, runs, stagesRun, notified, apiCalls,
          disconnectCalls, failure, softFailed, balanceSeen, runOrder, runSnapshots,
          probes, inspected, atStart>>

directVars == <<ord, ord2, cs, req, ssh, ex, wf>>
vars == <<orchVars, rb, ws, directVars>>

sessVars == <<client, sftpClient, connected>>
fieldVars == <<serverId, serverIp, snapshotId>>
provVars == <<nextId, nextSnap>>
callVars == <<entry, argId, argIp, runs, atStart>>
cfgVars == <<config, onProgress, outcome, result, disconnectCalls, rb, ws,
             directVars>>
fixedVars == <<cfgVars, softFailed>>
obsVars == <<apiCalls, balanceSeen, runOrder, runSnapshots, probes, inspected>>

NoResult == [success |-> FALSE, serverId |-> Undef, serverIp |-> Undef,
             snapshotId |-> Undef, healthCheckPassed |-> FALSE, errors |-> <<>>]
NoFailure == [stage |-> "none", kind |-> "none", msg |-> ""]
NoRollback == [snap |-> Undef, restore |-> "none", outcome |-> "none", error |-> ""]
NoWait == [pc |-> "idle", target |-> "", timeout |-> 0, elapsed |-> 0,
           last |-> "none", outcome |-> "none"]
NoReturn == [serverId |-> Undef, ipv4 |-> Undef, password |-> ""]
NoOrder == [pc |-> "idle", servers |-> {}, visible |-> {}, foreign |-> FALSE,
            before |-> {}, posts |-> 0, response |-> "none",
            created |-> Undef, sleeps |-> 0, listings |-> 0,
            outcome |-> "none", returned |-> NoReturn]
NoSnapshot == [id |-> Undef, status |-> ""]
NoCreate == [pc |-> "idle", snapshots |-> {}, visible |-> {}, before |-> {},
             response |-> "none", created |-> Undef, sleeps |-> 0,
             listings |-> 0, outcome |-> "none", returned |-> NoSnapshot]
NoSession == [client |-> 0, sftpClient |-> "null", connected |-> FALSE,
              transports |-> [t \in 1..MaxConnects |-> "unused"],
              timers |-> {}, results |-> [t \in 1..MaxConnects |-> "none"],
              op |-> "none", request |-> "none", last |-> "none"]
NoOutput == [stdout |-> "", stderr |-> ""]
NoRemote == [kind |-> "none", at |-> 0, code |-> 0, out |-> NoOutput]
NoExecResult == [command |-> 0, code |-> 0, stdout |-> "", stderr |-> ""]
NoExec == [pc |-> "idle", caller |-> "none", commands |-> 0, override |-> Undef,
           timeout |-> 0, timer |-> FALSE, remote |-> NoRemote,
           stream |-> "none", promise |-> "none", value |-> NoExecResult,
           settles |-> 0, started |-> 0, results |-> <<>>, outcome |-> "none",
           returned |-> "", thrown |-> NoExecResult]
NoProbe == [pc |-> "idle", timeout |-> 0, invalid |-> FALSE, elapsed |-> 0,
            attempt |-> 0, open |-> FALSE, graced |-> FALSE,
            onRetry |-> <<>>, outcome |-> "none"]
NoRequest == [pc |-> "idle", op |-> "", answer |-> "none", status |-> Undef,
              outcome |-> "none", thrown |-> "", statusCode |-> Undef]

\* A fresh orchestrator with its session
InitOrch ==
  /\ config \in [domain : BOOLEAN, createSnapshot : BOOLEAN]
  /\ onProgress = FALSE
  /\ serverId = Undef /\ serverIp = Undef /\ snapshotId = Undef
  /\ logs = {} /\ errors = <<>>
  /\ client = "null" /\ sftpClient = "null" /\ connected = FALSE
  /\ entry = "none" /\ pc = "idle" /\ i = 0
  /\ argId = Undef /\ argIp = Undef /\ healthCheckPassed = FALSE
  /\ pending = NoResult /\ outcome = "none" /\ result = NoResult
  /\ nextId = 1 /\ nextSnap = 900
  /\ runs = 0 /\ stagesRun = <<>> /\ apiCalls = <<>> /\ disconnectCalls = 0
  /\ notified = <<>>
  /\ failure = NoFailure /\ softFailed = {} /\ balanceSeen = Undef /\ runOrder = Undef
  /\ runSnapshots = {} /\ probes = <<>> /\ inspected = "none"
  /\ atStart = [serverId |-> Undef, serverIp |-> Undef, snapshotId |-> Undef,
                nerrors |-> 0]

\* No client operation has been called directly
InitClient == ord = NoOrder /\ cs = NoCreate /\ req = NoRequest

\* A fresh SshProvisioner, no call in progress
InitSession == ssh = NoSession /\ ex = NoExec /\ wf = NoProbe

Init ==
  /\ InitOrch /\ rb = NoRollback /\ ws = NoWait /\ InitClient /\ InitSession
  /\ ord2 = NoOrder

\* ------------------------------------------------------------ the pipeline
\* Error messages (the text that identifies each kind)
CallbackError == "progress callback threw"
ApiError == "API request failed"
StatusError == "Server entered error state or timed out"
InsufficientMsg == "Insufficient account balance"
HealthFailedMsg == "Health check failed after all retries"
SslFailedMsg == "SSL certificate failed: Command failed"
SnapshotFailedMsg == "Snapshot creation failed: API request failed"

\* The balance gate with the boundary value let through
InsufficientBalance_Strict(balance) == balance < 0

\* checkBalance: the balance gate
InsufficientBalance(balance) == balance <= 0

\* The snapshot gate without the health condition
SnapshotGate_NoHealth(passed) == config.createSnapshot

\* deploy() / deployToExisting(): the gate in front of createSuccessSnapshot
SnapshotGate(passed) == config.createSnapshot /\ passed

\* The stage sequence with setupServer left out of deploy()
After_SkipSetup(stage) ==
  CASE stage = "check-balance" -> "order-vps"
    [] stage = "order-vps" -> "wait-provisioning"
    [] stage = "wait-provisioning" -> "wait-ssh"
    [] stage = "wait-ssh" -> "deploy-application"
    [] stage = "setup-server" -> "deploy-application"
    [] stage = "deploy-application" -> "configure-nginx"
    [] stage = "configure-nginx" ->
         IF config.domain THEN "obtain-ssl" ELSE "health-check"
    [] stage = "obtain-ssl" -> "health-check"
    [] OTHER -> "complete"

\* deploy() / deployToExisting(): the statement that follows each stage
After(stage) ==
  CASE stage = "check-balance" -> "order-vps"
    [] stage = "order-vps" -> "wait-provisioning"
    [] stage = "wait-provisioning" -> "wait-ssh"
    [] stage = "wait-ssh" ->
         IF entry = "deploy" THEN "setup-server" ELSE "deploy-application"
    [] stage = "setup-server" -> "deploy-application"
    [] stage = "deploy-application" -> "configure-nginx"
    [] stage = "configure-nginx" ->
         IF config.domain THEN "obtain-ssl" ELSE "health-check"
    [] stage = "obtain-ssl" -> "health-check"
    [] OTHER -> "complete"

\* The catch block without the push of the message onto this.errors
Catch_NoRecord(msg, stage, kind) ==
  /\ errors' = errors
  /\ logs' = IF entry = "deploy" THEN logs \cup {<<"Deployment failed", msg>>}
             ELSE logs
  /\ pending' = [success |-> FALSE,
                 serverId |-> IF entry = "deploy"
                              THEN (IF serverId = Undef THEN 0 ELSE serverId)
                              ELSE argId,
                 serverIp |-> IF entry = "deploy"
                              THEN (IF serverIp = Undef THEN EmptyIp ELSE serverIp)
                              ELSE argIp,
                 snapshotId |-> IF entry = "deploy" THEN snapshotId ELSE Undef,
                 healthCheckPassed |-> FALSE,
                 errors |-> errors]
  /\ failure' = [stage |-> stage, kind |-> kind, msg |-> msg]
  /\ pc' = "finally"
  /\ i' = 0

\* The catch block of the running call: record the message, build the
\* failed result, go to the finally block.
Catch(msg, stage, kind) ==
  /\ errors' = Append(errors, msg)
  /\ logs' = IF entry = "deploy" THEN logs \cup {<<"Deployment failed", msg>>}
             ELSE logs
  /\ pending' =
       IF entry = "deploy"
       THEN [success |-> FALSE,
             serverId |-> IF serverId = Undef THEN 0 ELSE serverId,
             serverIp |-> IF serverIp = Undef THEN EmptyIp ELSE serverIp,
             snapshotId |-> snapshotId,
             healthCheckPassed |-> FALSE,
             errors |-> Append(errors, msg)]
       ELSE [success |-> FALSE,
             serverId |-> argId,
             serverIp |-> argIp,
             snapshotId |-> Undef,
             healthCheckPassed |-> FALSE,
             errors |-> Append(errors, msg)]
  /\ failure' = [stage |-> stage, kind |-> kind, msg |-> msg]
  /\ pc' = "finally"
  /\ i' = 0

\* A stage ended normally: go on with the statement after it.
Proceed(next) ==
  /\ pc' = next
  /\ i' = 0
  /\ UNCHANGED <<logs, errors, pending, failure>>

\* A polling loop goes round: the next iteration of the same loop.
Again(loop) ==
  /\ pc' = loop
  /\ i' = i + 1
  /\ UNCHANGED <<logs, errors, pending, failure>>

\* progress(step, message): a log entry, then the callback if one is set
progress_Twice(step) == notified' = notified \o <<step, step>>

progress(step) == notified' = Append(notified, step)

\* setProgressCallback(callback)
setProgressCallback ==
  /\ pc = "idle" /\ ~onProgress
  /\ onProgress' = TRUE
  /\ UNCHANGED <<config, serverId, serverIp, snapshotId, logs, errors,
                 client, sftpClient, connected, entry, pc, i, argId, argIp,
                 healthCheckPassed, pending, outcome, result, nextId,
                 nextSnap, runs, stagesRun, notified, apiCalls,
                 disconnectCalls,
                 failure, softFailed, balanceSeen, runOrder, runSnapshots, probes, inspected,
                 atStart, rb, ws, directVars>>

\* Entry of a call: what both entry points share
Enter(kind, first) ==
  /\ pc = "idle" /\ runs < MaxRuns
  /\ entry' = kind /\ pc' = first /\ runs' = runs + 1
  /\ i' = 0 /\ healthCheckPassed' = FALSE
  /\ pending' = NoResult /\ outcome' = "none" /\ result' = NoResult
  /\ stagesRun' = <<>> /\ apiCalls' = <<>> /\ disconnectCalls' = 0
  /\ notified' = <<>>
  /\ failure' = NoFailure /\ softFailed' = {} /\ balanceSeen' = Undef /\ runOrder' = Undef
  /\ runSnapshots' = {} /\ probes' = <<>> /\ inspected' = "none"
  /\ atStart' = [serverId |-> serverId, serverIp |-> serverIp,
                 snapshotId |-> snapshotId, nerrors |-> Len(errors)]
  /\ UNCHANGED <<config, onProgress, logs, errors, sessVars, provVars,
                 directVars>>

\* deploy(): entry
deploy ==
  /\ Enter("deploy", "check-balance")
  /\ rb' = NoRollback /\ ws' = NoWait
  /\ UNCHANGED <<fieldVars, argId, argIp>>

\* deployToExisting(serverId, serverIp, password): entry, seeds the run state
deployToExisting ==
  \E id \in ExistingIds, ip \in ExistingIps :
    /\ Enter("existing", "wait-ssh")
    /\ serverId' = id /\ serverIp' = ip /\ argId' = id /\ argIp' = ip
    /\ rb' = NoRollback /\ ws' = NoWait
    /\ UNCHANGED snapshotId

\* Step 1: checkBalance
checkBalance ==
  /\ pc = "check-balance"
  /\ stagesRun' = Append(stagesRun, "check-balance")
  /\ progress("check-balance")
  /\ \/ /\ onProgress
        /\ Catch(CallbackError, "check-balance", "callback")
        /\ UNCHANGED <<apiCalls, balanceSeen>>
     \/ /\ apiCalls' = Append(apiCalls, "getBalance")
        /\ \/ /\ Catch(ApiError, "check-balance", "stage")
              /\ UNCHANGED balanceSeen
           \/ \E b \in Balances :
                /\ balanceSeen' = b
                /\ IF InsufficientBalance(b)
                   THEN Catch(InsufficientMsg, "check-balance", "stage")
                   ELSE Proceed(After("check-balance"))
  /\ UNCHANGED <<fixedVars, fieldVars, sessVars, provVars, callVars,
                 healthCheckPassed, runOrder, runSnapshots, probes, inspected>>

\* Step 2: orderVps
orderVps ==
  /\ pc = "order-vps"
  /\ stagesRun' = Append(stagesRun, "order-vps")
  /\ progress("order-vps")
  /\ \/ /\ onProgress
        /\ Catch(CallbackError, "order-vps", "callback")
        /\ UNCHANGED <<apiCalls, runOrder, fieldVars, provVars>>
     \/ /\ apiCalls' = Append(apiCalls, "orderVps")
        /\ \/ /\ Catch(ApiError, "order-vps", "stage")
              /\ UNCHANGED <<runOrder, fieldVars, provVars>>
           \/ /\ serverId' = nextId /\ serverIp' = IpOf(nextId)
              /\ runOrder' = nextId /\ nextId' = nextId + 1
              /\ Proceed(After("order-vps"))
              /\ UNCHANGED <<snapshotId, nextSnap>>
  /\ UNCHANGED <<fixedVars, sessVars, callVars, healthCheckPassed,
                 balanceSeen, runSnapshots, probes, inspected>>

\* waitForProvisioning taking the address from the status response, which
\* carries none
waitForProvisioning_RewritesIp ==
  /\ pc = "wait-provisioning"
  /\ stagesRun' = Append(stagesRun, "wait-provisioning")
  /\ progress("wait-provisioning")
  /\ \/ /\ onProgress
        /\ Catch(CallbackError, "wait-provisioning", "callback")
        /\ UNCHANGED <<apiCalls, serverIp>>
     \/ /\ apiCalls' = Append(apiCalls, "waitForStatus")
        /\ \/ Catch(ApiError, "wait-provisioning", "stage") /\ UNCHANGED serverIp
           \/ Catch(StatusError, "wait-provisioning", "stage") /\ UNCHANGED serverIp
           \/ Proceed(After("wait-provisioning")) /\ serverIp' = EmptyIp
  /\ UNCHANGED <<fixedVars, serverId, snapshotId, sessVars, provVars, callVars,
                 healthCheckPassed, balanceSeen, runOrder, runSnapshots, probes, inspected>>

\* Step 3: waitForProvisioning
waitForProvisioning ==
  /\ pc = "wait-provisioning"
  /\ stagesRun' = Append(stagesRun, "wait-provisioning")
  /\ progress("wait-provisioning")
  /\ \/ /\ onProgress
        /\ Catch(CallbackError, "wait-provisioning", "callback")
        /\ UNCHANGED apiCalls
     \/ /\ apiCalls' = Append(apiCalls, "waitForStatus")
        /\ \/ Catch(ApiError, "wait-provisioning", "stage")
           \/ Catch(StatusError, "wait-provisioning", "stage")
           \/ Proceed(After("wait-provisioning"))
  /\ UNCHANGED <<fixedVars, fieldVars, sessVars, provVars, callVars,
                 healthCheckPassed, balanceSeen, runOrder, runSnapshots, probes, inspected>>

\* ------------------------------------------------------------- the session
ConnectError == "SSH connection error"
ConnectTimeout == "SSH connection timeout"
DisconnectError == "sftp end failed"
SshTimeout == "Timeout waiting for SSH"
UploadFailed == "SFTP upload failed"
CommandFailed == "Command failed"
SetupFailed == "Setup script failed"
Unhealthy == "Container is unhealthy"

\* SshProvisioner.disconnect() ending normally
DisconnectOk ==
  /\ sftpClient' = "null" /\ client' = "null" /\ connected' = FALSE

\* SshProvisioner.disconnect() failing: only sftpClient.end() can reject,
\* and then nothing after it is executed
DisconnectThrows ==
  /\ sftpClient # "null"
  /\ UNCHANGED sessVars

\* getSftp() followed by put(): the possible <<sftpClient afterwards, ok>>
UploadResults(sftp) ==
  IF sftp = "null"
  THEN {<<"unestablished", FALSE>>, <<"open", FALSE>>, <<"open", TRUE>>}
  ELSE IF sftp = "open" THEN {<<"open", FALSE>>, <<"open", TRUE>>}
  ELSE {<<"unestablished", FALSE>>}

\* Step 4: waitForSsh (the reachability wait, then ssh.connect)
waitForSsh ==
  /\ pc = "wait-ssh"
  /\ \/ /\ onProgress
        /\ Catch(CallbackError, "wait-ssh", "callback")
        /\ stagesRun' = Append(stagesRun, "wait-ssh")
        /\ progress("wait-ssh")
        /\ UNCHANGED sessVars
     \/ /\ Catch(SshTimeout, "wait-ssh", "stage")
        /\ stagesRun' = Append(stagesRun, "wait-ssh")
        /\ progress("wait-ssh")
        /\ UNCHANGED sessVars
     \/ /\ stagesRun' = stagesRun \o <<"wait-ssh", "connect">>
        /\ progress("wait-ssh")
        /\ \/ /\ connected              \* connect(): disconnect first
              /\ DisconnectThrows
              /\ Catch(DisconnectError, "connect", "stage")
           \/ /\ client' = "live" /\ connected' = TRUE /\ sftpClient' = "null"
              /\ Proceed(After("wait-ssh"))
           \/ \E msg \in {ConnectError, ConnectTimeout} :
                /\ client' = "dead" /\ connected' = FALSE
                /\ sftpClient' = "null"
                /\ Catch(msg, "connect", "stage")
  /\ UNCHANGED <<fixedVars, fieldVars, provVars, callVars,
                 healthCheckPassed, obsVars>>

\* Step 5: setupServer
setupServer ==
  /\ pc = "setup-server"
  /\ stagesRun' = Append(stagesRun, "setup-server")
  /\ progress("setup-server")
  /\ \/ /\ onProgress
        /\ Catch(CallbackError, "setup-server", "callback")
        /\ UNCHANGED sftpClient
     \/ \E up \in UploadResults(sftpClient) :
          /\ sftpClient' = up[1]
          /\ IF ~up[2]
             THEN Catch(UploadFailed, "setup-server", "stage")
             ELSE \/ Catch(CommandFailed, "setup-server", "stage")
                  \/ Catch(SetupFailed, "setup-server", "stage")
                  \/ Proceed(After("setup-server"))
  /\ UNCHANGED <<fixedVars, fieldVars, client, connected, provVars, callVars,
                 healthCheckPassed, obsVars>>

\* Step 6: deployApplication, up to the container-health wait
deployApplication ==
  /\ pc = "deploy-application"
  /\ stagesRun' = Append(stagesRun, "deploy-application")
  /\ progress("deploy-application")
  /\ \/ /\ onProgress
        /\ Catch(CallbackError, "deploy-application", "callback")
        /\ UNCHANGED sftpClient
     \/ /\ Catch(CommandFailed, "deploy-application", "stage")
        /\ UNCHANGED sftpClient
     \/ \E up \in UploadResults(sftpClient) :
          /\ sftpClient' = up[1]
          /\ IF ~up[2]
             THEN Catch(UploadFailed, "deploy-application", "stage")
             ELSE \/ Catch(CommandFailed, "deploy-application", "stage")
                  \/ Proceed("container-health")
  /\ UNCHANGED <<fixedVars, fieldVars, client, connected, provVars, callVars,
                 healthCheckPassed, obsVars>>

\* What the docker inspect command of one poll can give: its trimmed
\* output, or a rejection of exec()
ContainerStatuses == {"healthy", "unhealthy", "starting", "error"}

\* status === 'unhealthy': the container logs are fetched with a second
\* exec() and thrown inside the error, unless that exec() itself throws
OnUnhealthy ==
  \/ Catch(Unhealthy, "deploy-application", "stage")
  \/ Catch(CommandFailed, "deploy-application", "stage")

\* waitForContainerHealth: one poll of the loop (and the code after the loop
\* when the poll was the last one)
waitForContainerHealth ==
  /\ pc = "container-health" /\ i < ContainerMaxAttempts
  /\ \E status \in ContainerStatuses :
       /\ inspected' = status
       /\ CASE status = "error" -> Catch(CommandFailed, "deploy-application", "stage")
            [] status = "healthy" -> Proceed(After("deploy-application"))
            [] status = "unhealthy" -> OnUnhealthy
            [] OTHER -> IF i + 1 < ContainerMaxAttempts
                        THEN Again("container-health")
                        ELSE Proceed(After("deploy-application"))
  /\ UNCHANGED <<fixedVars, fieldVars, sessVars, provVars, callVars,
                 healthCheckPassed, stagesRun, notified, apiCalls, balanceSeen,
                 runOrder, runSnapshots, probes>>

\* Step 7: configureNginx
configureNginx ==
  /\ pc = "configure-nginx"
  /\ stagesRun' = Append(stagesRun, "configure-nginx")
  /\ progress("configure-nginx")
  /\ \/ /\ onProgress
        /\ Catch(CallbackError, "configure-nginx", "callback")
        /\ UNCHANGED sftpClient
     \/ \E up \in UploadResults(sftpClient) :
          /\ sftpClient' = up[1]
          /\ IF ~up[2]
             THEN Catch(UploadFailed, "configure-nginx", "stage")
             ELSE \/ Catch(CommandFailed, "configure-nginx", "stage")
                  \/ Proceed(After("configure-nginx"))
  /\ inspected' = "none"
  /\ UNCHANGED <<fixedVars, fieldVars, client, connected, provVars, callVars,
                 healthCheckPassed, apiCalls, balanceSeen, runOrder,
                 runSnapshots, probes>>

\* obtainSsl without its own try/catch: a certbot failure reaches the
\* catch block of the running call
obtainSsl_Fatal ==
  /\ pc = "obtain-ssl" /\ config.domain
  /\ stagesRun' = Append(stagesRun, "obtain-ssl")
  /\ progress("obtain-ssl")
  /\ \/ /\ onProgress
        /\ Catch(CallbackError, "obtain-ssl", "callback")
        /\ UNCHANGED softFailed
     \/ /\ Proceed(After("obtain-ssl"))
        /\ UNCHANGED softFailed
     \/ /\ softFailed' = softFailed \cup {"obtain-ssl"}
        /\ Catch(CommandFailed, "obtain-ssl", "stage")
  /\ UNCHANGED <<cfgVars, fieldVars, sessVars, provVars, callVars,
                 healthCheckPassed, obsVars>>

\* Step 8: obtainSsl
obtainSsl ==
  /\ pc = "obtain-ssl" /\ config.domain
  /\ stagesRun' = Append(stagesRun, "obtain-ssl")
  /\ progress("obtain-ssl")
  /\ \/ /\ onProgress
        /\ Catch(CallbackError, "obtain-ssl", "callback")
        /\ UNCHANGED softFailed
     \/ /\ Proceed(After("obtain-ssl"))
        /\ UNCHANGED softFailed
     \/ /\ errors' = Append(errors, SslFailedMsg)
        /\ logs' = logs \cup {<<"SSL certificate failed (non-critical)", CommandFailed>>}
        /\ softFailed' = softFailed \cup {"obtain-ssl"}
        /\ pc' = After("obtain-ssl")
        /\ UNCHANGED <<pending, failure, i>>
  /\ UNCHANGED <<cfgVars, fieldVars, sessVars, provVars, callVars,
                 healthCheckPassed, obsVars>>

\* The statement after verifyHealth returned passed
AfterHealth(passed) ==
  IF SnapshotGate(passed) THEN "create-snapshot" ELSE "complete"

\* verifyHealth throwing when all retries are used
HealthExhausted_Fatal ==
  /\ healthCheckPassed' = FALSE
  /\ softFailed' = softFailed \cup {"health-check"}
  /\ Catch(HealthFailedMsg, "health-check", "stage")

\* verifyHealth: the code after the retry loop (all retries used)
HealthExhausted ==
  /\ errors' = Append(errors, HealthFailedMsg)
  /\ UNCHANGED logs
  /\ healthCheckPassed' = FALSE
  /\ softFailed' = softFailed \cup {"health-check"}
  /\ pc' = AfterHealth(FALSE)
  /\ i' = 0
  /\ UNCHANGED <<pending, failure>>

\* Step 9: verifyHealth, up to the retry loop
verifyHealth ==
  /\ pc = "health-check"
  /\ stagesRun' = Append(stagesRun, "health-check")
  /\ progress("health-check")
  /\ \/ /\ onProgress
        /\ Catch(CallbackError, "health-check", "callback")
        /\ UNCHANGED <<softFailed, healthCheckPassed>>
     \/ IF HealthCheckRetries > 0
        THEN /\ Proceed("health-probe")
             /\ UNCHANGED <<softFailed, healthCheckPassed>>
        ELSE HealthExhausted
  /\ UNCHANGED <<cfgVars, fieldVars, sessVars, provVars, callVars, obsVars>>

\* What ssh.exec() of the curl command can give: a result with code 0, a
\* result with another code, or a rejection
ProbeOutcomes == {"exit0", "nonzero", "error"}

\* The probe did not pass: result.code === 0 is false, or exec() threw
Miss_ErrorsOnly(probe) == probe = "error"

Miss(probe) == probe # "exit0"

\* verifyHealth: one iteration of the retry loop (and the code after the
\* loop when the iteration was the last one)
healthProbe ==
  /\ pc = "health-probe" /\ i < HealthCheckRetries
  /\ \E probe \in ProbeOutcomes :
       /\ probes' = Append(probes, probe)
       /\ IF ~Miss(probe)
          THEN /\ healthCheckPassed' = TRUE
               /\ Proceed(AfterHealth(TRUE))
               /\ UNCHANGED softFailed
          ELSE IF i + 1 < HealthCheckRetries
                  THEN /\ Again("health-probe")
                       /\ UNCHANGED <<softFailed, healthCheckPassed>>
                  ELSE HealthExhausted
  /\ UNCHANGED <<cfgVars, fieldVars, sessVars, provVars, callVars, stagesRun,
                 notified,
                 apiCalls, balanceSeen, runOrder, runSnapshots, inspected>>

\* The ids apiClient.createSnapshot can return once the provider has made
\* snapshot new: the one in the provider's answer or found in the listing,
\* or the Date.now() of the placeholder when no listing showed it
SnapshotReturned(new) == {new} \cup Placeholders

\* Step 10: createSuccessSnapshot
createSuccessSnapshot ==
  /\ pc = "create-snapshot"
  /\ stagesRun' = Append(stagesRun, "create-snapshot")
  /\ progress("create-snapshot")
  /\ \/ /\ onProgress
        /\ Catch(CallbackError, "create-snapshot", "callback")
        /\ UNCHANGED <<apiCalls, runSnapshots, snapshotId, nextSnap, softFailed>>
     \/ /\ apiCalls' = Append(apiCalls, "createSnapshot")
        /\ \/ \E id \in SnapshotReturned(nextSnap) :
                /\ snapshotId' = id /\ nextSnap' = nextSnap + 1
                /\ runSnapshots' = runSnapshots \cup {id}
                /\ Proceed("complete")
                /\ UNCHANGED softFailed
           \/ /\ errors' = Append(errors, SnapshotFailedMsg)
              /\ logs' = logs \cup {<<"Snapshot creation failed (non-critical)", ApiError>>}
              /\ softFailed' = softFailed \cup {"create-snapshot"}
              /\ pc' = "complete"
              /\ UNCHANGED <<pending, failure, i, runSnapshots, snapshotId,
                             nextSnap>>
  /\ UNCHANGED <<cfgVars, serverId, serverIp, sessVars, nextId, callVars,
                 healthCheckPassed, balanceSeen, runOrder, probes, inspected>>

\* The end of the try block: progress('complete', ...) and the return
complete ==
  /\ pc = "complete"
  /\ stagesRun' = Append(stagesRun, "complete")
  /\ progress("complete")
  /\ \/ /\ onProgress
        /\ Catch(CallbackError, "complete", "callback")
     \/ /\ UNCHANGED logs
        /\ pending' = [success |-> TRUE,
                       serverId |-> IF entry = "deploy" THEN serverId ELSE argId,
                       serverIp |-> IF entry = "deploy" THEN serverIp ELSE argIp,
                       snapshotId |-> snapshotId,
                       healthCheckPassed |-> healthCheckPassed,
                       errors |-> errors]
        /\ pc' = "finally"
        /\ UNCHANGED <<errors, failure, i>>
  /\ UNCHANGED <<fixedVars, fieldVars, sessVars, provVars, callVars,
                 healthCheckPassed, obsVars>>

\* The cleanup placed on the success path only (no finally block)
Finally_SuccessOnly ==
  /\ pc = "finally"
  /\ IF pending.success
     THEN /\ disconnectCalls' = disconnectCalls + 1
          /\ \/ /\ DisconnectOk
                /\ outcome' = "result" /\ result' = pending
             \/ /\ DisconnectThrows
                /\ outcome' = "exception" /\ result' = NoResult
     ELSE /\ outcome' = "result" /\ result' = pending
          /\ UNCHANGED <<disconnectCalls, sessVars>>
  /\ pc' = "idle"
  /\ inspected' = "none"
  /\ UNCHANGED <<config, onProgress, fieldVars, logs, errors, provVars,
                 callVars, i, healthCheckPassed, pending, stagesRun, notified,
                 failure, softFailed, apiCalls, balanceSeen, runOrder,
                 runSnapshots, probes, rb, ws, directVars>>

\* The finally block: await this.ssh.disconnect(), then the pending return
\* takes effect, unless disconnect() threw
Finally ==
  /\ pc = "finally"
  /\ disconnectCalls' = disconnectCalls + 1
  /\ \/ /\ DisconnectOk
        /\ outcome' = "result" /\ result' = pending
     \/ /\ DisconnectThrows
        /\ outcome' = "exception" /\ result' = NoResult
  /\ pc' = "idle"
  /\ inspected' = "none"
  /\ UNCHANGED <<config, onProgress, fieldVars, logs, errors, provVars,
                 callVars, i, healthCheckPassed, pending, stagesRun, notified,
                 failure, softFailed, apiCalls, balanceSeen, runOrder,
                 runSnapshots, probes, rb, ws, directVars>>


\* ------------------------------------------- ServersGuruClient.waitForStatus
NoServerIdMsg == "No server ID available for rollback"

\* waitForStatus(serverId, targetStatus, {timeout}): the call, up to the loop
StartWait(target, timeout) ==
  [pc |-> "loop", target |-> target, timeout |-> timeout, elapsed |-> 0,
   last |-> "none", outcome |-> "none"]

\* waitForStatus that starts over where it should end
EndWait_Restart(how, status) == [ws EXCEPT !.last = status, !.elapsed = 0]

\* waitForStatus ends: it returns the status or throws
EndWait(how, status) ==
  [ws EXCEPT !.pc = "done", !.outcome = how, !.last = status, !.elapsed = 0]

\* The loop body without the check for the 'error' status
OnStatus_NoErrorCheck(status, now) ==
  IF status = ws.target THEN EndWait("ok", status)
  ELSE [ws EXCEPT !.last = status, !.elapsed = now + DefaultPollInterval]

\* waitForStatus: the loop body after getServerStatus returned status at
\* time now (since the start): return, throw, or sleep pollInterval
OnStatus(status, now) ==
  IF status = ws.target THEN EndWait("ok", status)
  ELSE IF status = "error" THEN EndWait("ErrorState", status)
  ELSE [ws EXCEPT !.last = status, !.elapsed = now + DefaultPollInterval]

\* waitForStatus: one iteration of the loop; getServerStatus throws or
\* returns a status
waitForStatusPoll ==
  /\ ws.pc = "loop" /\ ws.elapsed < ws.timeout
  /\ \E d \in RequestTimes :
       \/ ws' = EndWait("ApiError", ws.last)
       \/ \E status \in Statuses : ws' = OnStatus(status, ws.elapsed + d)
  /\ UNCHANGED <<orchVars, rb, directVars>>

\* waitForStatus: the loop condition is false, the timeout error is thrown
waitForStatusTimeout ==
  /\ ws.pc = "loop" /\ ws.elapsed >= ws.timeout
  /\ ws' = EndWait("Timeout", ws.last)
  /\ UNCHANGED <<orchVars, rb, directVars>>

\* ------------------------------------------------------------- rollback
\* The guard of rollback never taken
NoServerId_Never(id) == FALSE

\* rollback: the guard !this.serverId
NoServerId(id) == id = Undef \/ id = 0

\* rollback(snapshotId): entry and guard
rollback ==
  \E snap \in SnapshotArgs :
    /\ Enter("rollback", IF NoServerId(serverId) THEN "idle" ELSE "restore-snapshot")
    /\ rb' = IF NoServerId(serverId)
             THEN [snap |-> snap, restore |-> "none", outcome |-> "exception",
                   error |-> NoServerIdMsg]
             ELSE [snap |-> snap, restore |-> "none", outcome |-> "none",
                   error |-> ""]
    /\ ws' = NoWait
    /\ UNCHANGED <<fieldVars, argId, argIp>>

\* What every step of rollback leaves alone
rbFixed == <<config, onProgress, fieldVars, logs, errors, sessVars, provVars,
             callVars, i, healthCheckPassed, pending, outcome, result,
             stagesRun, notified, disconnectCalls, failure, softFailed,
             balanceSeen,
             runOrder, runSnapshots, probes, inspected, directVars>>

\* rollback: apiClient.restoreSnapshot(this.serverId, snapshotId) is called
rollbackRestore ==
  /\ pc = "restore-snapshot"
  /\ apiCalls' = Append(apiCalls, "restoreSnapshot")
  /\ rb' = [rb EXCEPT !.restore = "pending"]
  /\ pc' = "restoring"
  /\ UNCHANGED <<rbFixed, ws>>

\* rollback: restoreSnapshot settles; a rejection leaves rollback, otherwise
\* waitForStatus(this.serverId, 'running', {timeout: 300000}) is called
rollbackRestored ==
  /\ pc = "restoring"
  /\ \/ /\ rb' = [rb EXCEPT !.restore = "failed", !.outcome = "exception",
                             !.error = ApiError]
        /\ pc' = "idle"
        /\ UNCHANGED <<apiCalls, ws>>
     \/ /\ rb' = [rb EXCEPT !.restore = "ok"]
        /\ apiCalls' = Append(apiCalls, "waitForStatus")
        /\ ws' = StartWait("running", RollbackTimeout)
        /\ pc' = "rollback-wait"
  /\ UNCHANGED rbFixed

\* rollback returning normally whatever waitForStatus did
rollbackReturn_Swallow ==
  /\ pc = "rollback-wait" /\ ws.pc = "done"
  /\ rb' = [rb EXCEPT !.outcome = "returned"]
  /\ pc' = "idle"
  /\ UNCHANGED <<rbFixed, apiCalls, ws>>

\* rollback: waitForStatus settles; rollback returns, or the error leaves it
rollbackReturn ==
  /\ pc = "rollback-wait" /\ ws.pc = "done"
  /\ rb' = IF ws.outcome = "ok"
           THEN [rb EXCEPT !.outcome = "returned"]
           ELSE [rb EXCEPT !.outcome = "exception", !.error = ws.outcome]
  /\ pc' = "idle"
  /\ UNCHANGED <<rbFixed, apiCalls, ws>>

Next ==
  \/ setProgressCallback
  \/ deploy
  \/ deployToExisting
  \/ checkBalance
  \/ orderVps
  \/ waitForProvisioning
  \/ waitForSsh
  \/ setupServer
  \/ deployApplication
  \/ waitForContainerHealth
  \/ configureNginx
  \/ obtainSsl
  \/ verifyHealth
  \/ healthProbe
  \/ createSuccessSnapshot
  \/ complete
  \/ Finally
  \/ rollback
  \/ rollbackRestore
  \/ rollbackRestored
  \/ waitForStatusPoll
  \/ waitForStatusTimeout
  \/ rollbackReturn

Spec == Init /\ [][Next]_vars

\* -------------------------------------------- waitForStatus called directly
\* A client on which waitForStatus(id, target, {timeout}) has been called
InitWait ==
  /\ InitOrch /\ ~config.domain /\ ~config.createSnapshot /\ ord2 = NoOrder
  /\ rb = NoRollback /\ InitClient /\ InitSession
  /\ \E target \in WaitTargets, timeout \in WaitTimeouts :
       ws = [NoWait EXCEPT !.pc = "loop", !.target = target, !.timeout = timeout]

NextWait == waitForStatusPoll \/ waitForStatusTimeout

SpecWait == InitWait /\ [][NextWait]_vars

\* ------------------------------------------------ ServersGuruClient.orderVps
\* orderVps throws
OrderThrow(kind) == [ord EXCEPT !.pc = "done", !.outcome = kind]

\* orderVps returns a result
OrderReturn(o, id, password) ==
  [o EXCEPT !.pc = "done", !.outcome = "ok",
            !.returned = [serverId |-> id, ipv4 |-> IpOf(id),
                          password |-> password]]

\* The search for the new server without the exclusion of the known ids
NewServers_All(listing, before) == listing

\* orderVps: the servers of a listing that serversAfter.find(...) accepts
NewServers(listing, before) == listing \ before

\* The branches after the order request with the failure answers polled too
OrderReaction_PollOnError(response) ==
  CASE response = "data" -> "return"
    [] response = "success" -> "poll"
    [] response = "error" -> "poll"
    [] OTHER -> "throw"

\* orderVps: the branch taken on each shape of the answer
OrderReaction(response) ==
  CASE response = "data" -> "return"
    [] response = "success" -> "poll"
    [] OTHER -> "throw"

\* orderVps: serversBefore = await this.listServers()
orderListBefore ==
  /\ ord.pc = "list-before"
  /\ \/ ord' = OrderThrow("ApiError")
     \/ ord' = [ord EXCEPT !.before = ord.visible, !.pc = "post"]
  /\ UNCHANGED <<orchVars, rb, ws, ord2, cs, req, ssh, ex, wf>>

\* orderVps: the order request and the branch on its answer; an accepted
\* order makes the provider create a server
orderPost ==
  /\ ord.pc = "post"
  /\ \/ ord' = [OrderThrow("ApiError") EXCEPT !.posts = @ + 1]
     \/ \E response \in OrderResponses, id \in FreshIds \ ord.servers :
          LET accepted == response \in {"data", "success"}
              o == [ord EXCEPT !.posts = @ + 1, !.response = response,
                               !.created = IF accepted THEN id ELSE Undef,
                               !.servers = IF accepted THEN @ \cup {id} ELSE @]
          IN  ord' = CASE OrderReaction(response) = "return" ->
                            OrderReturn(o, id, "secret")
                       [] OrderReaction(response) = "poll" ->
                            [o EXCEPT !.pc = "sleep"]
                       [] OTHER ->
                            [o EXCEPT !.pc = "done", !.outcome = "OrderFailed"]
  /\ UNCHANGED <<orchVars, rb, ws, ord2, cs, req, ssh, ex, wf>>

\* orderVps: await this.sleep(5000) at the head of an iteration
orderSleep ==
  /\ ord.pc = "sleep" /\ ord.sleeps < OrderMaxAttempts
  /\ ord' = [ord EXCEPT !.sleeps = @ + 1, !.pc = "list"]
  /\ UNCHANGED <<orchVars, rb, ws, ord2, cs, req, ssh, ex, wf>>

\* orderVps: one listing of the search and the look for a new server
orderList ==
  /\ ord.pc = "list"
  /\ \/ ord' = OrderThrow("ApiError")
     \/ LET new == NewServers(ord.visible, ord.before)
            o == [ord EXCEPT !.listings = @ + 1]
        IN  IF new = {}
            THEN ord' = [o EXCEPT !.pc = "sleep"]
            ELSE \E id \in new : ord' = OrderReturn(o, id, "")
  /\ UNCHANGED <<orchVars, rb, ws, ord2, cs, req, ssh, ex, wf>>

\* The order placed again when the search has found nothing
SearchFailed_OrderAgain ==
  [ord EXCEPT !.pc = "post", !.sleeps = 0, !.listings = 0]

\* orderVps: the statement after the search loop
SearchFailed == OrderThrow("NotFound")

\* orderVps: the loop is over, no new server was seen
orderExhausted ==
  /\ ord.pc = "sleep" /\ ord.sleeps >= OrderMaxAttempts
  /\ ord' = SearchFailed
  /\ UNCHANGED <<orchVars, rb, ws, ord2, cs, req, ssh, ex, wf>>

\* The provider: a server it holds starts to appear in the listing
providerPublish ==
  /\ ord.pc \notin {"idle", "done"}
  /\ \E id \in ord.servers \ ord.visible :
       ord' = [ord EXCEPT !.visible = @ \cup {id}]
  /\ UNCHANGED <<orchVars, rb, ws, ord2, cs, req, ssh, ex, wf>>

\* Another user of the account orders a server while orderVps runs (once)
otherActor ==
  /\ ord.pc \notin {"idle", "done"} /\ ~ord.foreign
  /\ \E id \in FreshIds \ ord.servers :
       ord' = [ord EXCEPT !.servers = @ \cup {id}, !.foreign = TRUE]
  /\ UNCHANGED <<orchVars, rb, ws, ord2, cs, req, ssh, ex, wf>>

\* An account and a client on which orderVps(config) has been called
InitOrder ==
  /\ InitOrch /\ ~config.domain /\ ~config.createSnapshot /\ ord2 = NoOrder
  /\ rb = NoRollback /\ ws = NoWait /\ cs = NoCreate /\ req = NoRequest
  /\ InitSession
  /\ \E account \in Accounts :
       ord = [NoOrder EXCEPT !.pc = "list-before", !.servers = account,
                             !.visible = account]

NextOrder ==
  \/ orderListBefore
  \/ orderPost
  \/ orderSleep
  \/ orderList
  \/ orderExhausted
  \/ providerPublish
  \/ otherActor

SpecOrder == InitOrder /\ [][NextOrder]_vars

\* ---------------------------------- two orderVps calls on the same account
\* The second call: serversBefore = await this.listServers()
order2ListBefore ==
  /\ ord2.pc = "list-before"
  /\ \/ ord2' = [ord2 EXCEPT !.pc = "done", !.outcome = "ApiError"]
     \/ ord2' = [ord2 EXCEPT !.before = ord.visible, !.pc = "post"]
  /\ UNCHANGED <<orchVars, rb, ws, ord, cs, req, ssh, ex, wf>>

\* The second call: the order request and the branch on its answer; an
\* accepted order makes the provider create a server in the account
order2Post ==
  /\ ord2.pc = "post"
  /\ \/ /\ ord2' = [ord2 EXCEPT !.pc = "done", !.outcome = "ApiError",
                                 !.posts = @ + 1]
        /\ UNCHANGED ord
     \/ \E response \in OrderResponses, id \in FreshIds \ ord.servers :
          LET accepted == response \in {"data", "success"}
              o == [ord2 EXCEPT !.posts = @ + 1, !.response = response,
                                !.created = IF accepted THEN id ELSE Undef]
          IN  /\ ord' = IF accepted
                        THEN [ord EXCEPT !.servers = @ \cup {id}]
                        ELSE ord
              /\ ord2' = CASE OrderReaction(response) = "return" ->
                               OrderReturn(o, id, "secret")
                          [] OrderReaction(response) = "poll" ->
                               [o EXCEPT !.pc = "sleep"]
                          [] OTHER ->
                               [o EXCEPT !.pc = "done", !.outcome = "OrderFailed"]
  /\ UNCHANGED <<orchVars, rb, ws, cs, req, ssh, ex, wf>>

\* The second call: await this.sleep(5000) at the head of an iteration
order2Sleep ==
  /\ ord2.pc = "sleep" /\ ord2.sleeps < OrderMaxAttempts
  /\ ord2' = [ord2 EXCEPT !.sleeps = @ + 1, !.pc = "list"]
  /\ UNCHANGED <<orchVars, rb, ws, ord, cs, req, ssh, ex, wf>>

\* The second call: one listing of the search and the look for a new server
order2List ==
  /\ ord2.pc = "list"
  /\ \/ ord2' = [ord2 EXCEPT !.pc = "done", !.outcome = "ApiError"]
     \/ LET new == NewServers(ord.visible, ord2.before)
            o == [ord2 EXCEPT !.listings = @ + 1]
        IN  IF new = {}
            THEN ord2' = [o EXCEPT !.pc = "sleep"]
            ELSE \E id \in new : ord2' = OrderReturn(o, id, "")
  /\ UNCHANGED <<orchVars, rb, ws, ord, cs, req, ssh, ex, wf>>

\* The second call: the loop is over, no new server was seen
order2Exhausted ==
  /\ ord2.pc = "sleep" /\ ord2.sleeps >= OrderMaxAttempts
  /\ ord2' = [ord2 EXCEPT !.pc = "done", !.outcome = "NotFound"]
  /\ UNCHANGED <<orchVars, rb, ws, ord, cs, req, ssh, ex, wf>>

\* The provider while the second call is still running
order2Publish ==
  /\ ord2.pc \notin {"idle", "done"}
  /\ \E id \in ord.servers \ ord.visible :
       ord' = [ord EXCEPT !.visible = @ \cup {id}]
  /\ UNCHANGED <<orchVars, rb, ws, ord2, cs, req, ssh, ex, wf>>

\* An account on which two clients have each called orderVps(config)
InitPair ==
  /\ InitOrch /\ ~config.domain /\ ~config.createSnapshot
  /\ rb = NoRollback /\ ws = NoWait /\ cs = NoCreate /\ req = NoRequest
  /\ InitSession
  /\ \E account \in Accounts :
       /\ ord = [NoOrder EXCEPT !.pc = "list-before", !.servers = account,
                                !.visible = account]
       /\ ord2 = [NoOrder EXCEPT !.pc = "list-before"]

NextPair ==
  \/ orderListBefore
  \/ orderPost
  \/ orderSleep
  \/ orderList
  \/ orderExhausted
  \/ providerPublish
  \/ order2ListBefore
  \/ order2Post
  \/ order2Sleep
  \/ order2List
  \/ order2Exhausted
  \/ order2Publish

SpecPair == InitPair /\ [][NextPair]_vars

\* ------------------------------------------ ServersGuruClient.createSnapshot
\* createSnapshot failing when the search finds nothing
AfterSearch_Throws(now) ==
  [cs EXCEPT !.pc = "done", !.outcome = "thrown"]

\* createSnapshot: the code after the search loop (the placeholder)
AfterSearch(now) ==
  [cs EXCEPT !.pc = "done", !.outcome = "placeholder",
             !.returned = [id |-> now, status |-> "pending"]]

\* createSnapshot: snapshotsBefore = await this.listSnapshots(serverId)
createListBefore ==
  /\ cs.pc = "list-before"
  /\ \/ cs' = [cs EXCEPT !.pc = "done", !.outcome = "thrown"]
     \/ cs' = [cs EXCEPT !.before = cs.visible, !.pc = "post"]
  /\ UNCHANGED <<orchVars, rb, ws, ord2, ord, req, ssh, ex, wf>>

\* createSnapshot: the create request and the branch on its answer; an
\* accepted request makes the provider create a snapshot
createPost ==
  /\ cs.pc = "post"
  /\ \/ cs' = [cs EXCEPT !.pc = "done", !.outcome = "thrown"]
     \/ \E response \in CreateResponses, id \in FreshSnapshots,
           status \in SnapshotStatuses :
          LET accepted == response \in {"data", "success"}
              c == [cs EXCEPT !.response = response,
                              !.created = IF accepted THEN id ELSE Undef,
                              !.snapshots = IF accepted THEN @ \cup {id} ELSE @]
          IN  cs' = CASE response = "data" ->
                           [c EXCEPT !.pc = "done", !.outcome = "data",
                                     !.returned = [id |-> id, status |-> status]]
                      [] response = "success" -> [c EXCEPT !.pc = "sleep"]
                      [] OTHER -> [c EXCEPT !.pc = "done", !.outcome = "thrown"]
  /\ UNCHANGED <<orchVars, rb, ws, ord2, ord, req, ssh, ex, wf>>

\* createSnapshot: await this.sleep(5000) at the head of an iteration
createSleep ==
  /\ cs.pc = "sleep" /\ cs.sleeps < SnapshotMaxAttempts
  /\ cs' = [cs EXCEPT !.sleeps = @ + 1, !.pc = "list"]
  /\ UNCHANGED <<orchVars, rb, ws, ord2, ord, req, ssh, ex, wf>>

\* createSnapshot: one listing of the search and the look for a new snapshot
createList ==
  /\ cs.pc = "list"
  /\ \/ cs' = [cs EXCEPT !.pc = "done", !.outcome = "thrown"]
     \/ LET new == cs.visible \ cs.before
            c == [cs EXCEPT !.listings = @ + 1]
        IN  IF new = {}
            THEN cs' = [c EXCEPT !.pc = "sleep"]
            ELSE \E id \in new, status \in SnapshotStatuses :
                   cs' = [c EXCEPT !.pc = "done", !.outcome = "found",
                                   !.returned = [id |-> id, status |-> status]]
  /\ UNCHANGED <<orchVars, rb, ws, ord2, ord, req, ssh, ex, wf>>

\* createSnapshot: the loop is over, no new snapshot was seen
createExhausted ==
  /\ cs.pc = "sleep" /\ cs.sleeps >= SnapshotMaxAttempts
  /\ \E now \in Timestamps : cs' = AfterSearch(now)
  /\ UNCHANGED <<orchVars, rb, ws, ord2, ord, req, ssh, ex, wf>>

\* The provider: a snapshot it holds starts to appear in the listing
snapshotPublish ==
  /\ cs.pc \notin {"idle", "done"}
  /\ \E id \in cs.snapshots \ cs.visible :
       cs' = [cs EXCEPT !.visible = @ \cup {id}]
  /\ UNCHANGED <<orchVars, rb, ws, ord2, ord, req, ssh, ex, wf>>

\* A server and a client on which createSnapshot(serverId) has been called
InitCreate ==
  /\ InitOrch /\ ~config.domain /\ ~config.createSnapshot /\ ord2 = NoOrder
  /\ rb = NoRollback /\ ws = NoWait /\ ord = NoOrder /\ req = NoRequest
  /\ InitSession
  /\ \E list \in SnapshotLists :
       cs = [NoCreate EXCEPT !.pc = "list-before", !.snapshots = list,
                             !.visible = list]

NextCreate ==
  \/ createListBefore
  \/ createPost
  \/ createSleep
  \/ createList
  \/ createExhausted
  \/ snapshotPublish

SpecCreate == InitCreate /\ [][NextCreate]_vars

\* ------------------------------------------------ ServersGuruClient.request
\* request: fetch settles and request returns the parsed body or throws
requestFetch ==
  /\ req.pc = "fetch"
  /\ \/ req' = [req EXCEPT !.pc = "settled", !.answer = "network",
                            !.outcome = "thrown", !.thrown = "TypeError"]
     \/ \E status \in HttpStatuses :
          req' = [req EXCEPT !.pc = "settled", !.answer = "http",
                             !.status = status, !.outcome = "thrown",
                             !.thrown = "ServersGuruApiError",
                             !.statusCode = status]
     \/ req' = [req EXCEPT !.pc = "settled", !.answer = "ok", !.status = 200,
                           !.outcome = "returned"]
     \/ req' = [req EXCEPT !.pc = "settled", !.answer = "badjson",
                           !.status = 200, !.outcome = "thrown",
                           !.thrown = "SyntaxError"]
  /\ UNCHANGED <<orchVars, rb, ws, ord2, ord, cs, ssh, ex, wf>>

\* The operation after its await this.request(...): no operation catches,
\* so what request threw leaves the operation
operationEnds ==
  /\ req.pc = "settled"
  /\ req' = [req EXCEPT !.pc = "done"]
  /\ UNCHANGED <<orchVars, rb, ws, ord2, ord, cs, ssh, ex, wf>>

\* A client on which one operation has been called
InitRequest ==
  /\ InitOrch /\ ~config.domain /\ ~config.createSnapshot /\ ord2 = NoOrder
  /\ rb = NoRollback /\ ws = NoWait /\ ord = NoOrder /\ cs = NoCreate
  /\ InitSession
  /\ \E op \in Operations : req = [NoRequest EXCEPT !.pc = "fetch", !.op = op]

NextRequest == requestFetch \/ operationEnds

SpecRequest == InitRequest /\ [][NextRequest]_vars

\* ---------------------------------------------- SshProvisioner used directly
\* The transports (ssh2 Client objects) that hold a connection or are
\* opening one
Live == {t \in 1..MaxConnects : ssh.transports[t] \in {"connecting", "ready"}}

\* disconnect() on the session: <<the session afterwards, "ok" | "threw">>;
\* sftpClient.end() may reject, and then nothing after it is executed
Disconnected(sess) ==
  LET released ==
        [sess EXCEPT !.sftpClient = "null", !.client = 0, !.connected = FALSE,
                     !.transports =
                        IF sess.client = 0 THEN @
                        ELSE [@ EXCEPT ![sess.client] = "ended"]]
  IN  IF sess.sftpClient = "null"
      THEN {<<released, "ok">>}
      ELSE {<<released, "ok">>, <<sess, "threw">>}

\* A promise settles once: resolve and reject on a settled promise change
\* nothing
Settle_Overwrite(promise, value) == value

Settle(promise, value) == IF promise = "pending" THEN value ELSE promise

\* The guard of exec() and of getSftp(): !this.client || !this.connected
NotConnected_NoClient(sess) == sess.client = 0

NotConnected(sess) == sess.client = 0 \/ ~sess.connected

\* The operations that run a command, and those that transfer a file
ExecOps == {"exec", "execOrFail", "execAll"}
FileOps == {"uploadContent", "uploadTemplate", "fileExists", "mkdir"}

\* connect(credentials): disconnect first if connected, then a new Client
\* is created, its timer armed and its handshake started; results[t] is the
\* promise this call returned
connect ==
  /\ \E t \in 1..MaxConnects :
       /\ ssh.transports[t] = "unused"
       /\ \A u \in 1..(t - 1) : ssh.transports[u] # "unused"
       /\ \E d \in (IF ssh.connected THEN Disconnected(ssh)
                      ELSE {<<ssh, "ok">>}) :
            ssh' = IF d[2] = "threw"
                   THEN [ssh EXCEPT !.op = "none", !.request = "none",
                                     !.last = "connect-threw"]
                   ELSE [d[1] EXCEPT !.client = t,
                                     !.transports[t] = "connecting",
                                     !.timers = @ \cup {t},
                                     !.results[t] = "pending",
                                     !.op = "none", !.request = "none", !.last = "connect"]
  /\ UNCHANGED <<orchVars, rb, ws, ord2, ord, cs, req, ex, wf>>

\* The 'ready' handler connect() put on transport t
connectReady ==
  /\ \E t \in 1..MaxConnects :
       /\ ssh.transports[t] = "connecting"
       /\ ssh' = [ssh EXCEPT !.transports[t] = "ready", !.timers = @ \ {t},
                             !.connected = TRUE,
                             !.results[t] = Settle(@, "resolved"),
                             !.op = "none", !.request = "none", !.last = "ready"]
  /\ UNCHANGED <<orchVars, rb, ws, ord2, ord, cs, req, ex, wf>>

\* The 'error' handler connect() put on transport t
connectError ==
  /\ \E t \in 1..MaxConnects :
       /\ ssh.transports[t] \in {"connecting", "ready"}
       /\ ssh' = [ssh EXCEPT !.transports[t] = "failed", !.timers = @ \ {t},
                             !.connected = FALSE,
                             !.results[t] = Settle(@, "error"),
                             !.op = "none", !.request = "none", !.last = "error"]
  /\ UNCHANGED <<orchVars, rb, ws, ord2, ord, cs, req, ex, wf>>

\* The timer connect() armed for transport t fires: this.client?.end()
connectTimeout ==
  /\ \E t \in ssh.timers :
       ssh' = [ssh EXCEPT !.timers = @ \ {t},
                          !.transports =
                             IF ssh.client = 0 THEN @
                             ELSE [@ EXCEPT ![ssh.client] =
                                     IF @ \in {"connecting", "ready"}
                                     THEN "ended" ELSE @],
                          !.results[t] = Settle(@, "timeout"),
                          !.op = "none", !.request = "none", !.last = "timeout"]
  /\ UNCHANGED <<orchVars, rb, ws, ord2, ord, cs, req, ex, wf>>

\* A file operation, up to the first await of getSftp(): it throws on a
\* session that is not connected; with no file-transfer client it creates
\* one, stores it in this.sftpClient and starts to connect it; with one,
\* whatever its state, it returns it and the operation's request is made on
\* it. request is what the call handed to the remote host.
getSftp ==
  /\ \E op \in FileOps :
       IF NotConnected(ssh)
       THEN ssh' = [ssh EXCEPT !.op = op, !.request = "none",
                               !.last = "SSH not connected"]
       ELSE IF ssh.sftpClient = "null"
       THEN ssh' = [ssh EXCEPT !.sftpClient = "connecting", !.op = op,
                               !.request = "sftp-connect", !.last = "sftp"]
       ELSE ssh' = [ssh EXCEPT !.op = op, !.request = "sftp-request",
                               !.last = "sftp"]
  /\ UNCHANGED <<orchVars, rb, ws, ord2, ord, cs, req, ex, wf>>

\* await this.sftpClient.connect(...) in getSftp() settles: the client is
\* connected, or connect rejected and the operation fails; this.sftpClient
\* keeps the client either way
sftpConnect ==
  /\ ssh.sftpClient = "connecting"
  /\ \/ ssh' = [ssh EXCEPT !.sftpClient = "open", !.op = "none",
                            !.request = "none", !.last = "channel-open"]
     \/ ssh' = [ssh EXCEPT !.sftpClient = "unestablished", !.op = "none",
                            !.request = "none", !.last = "channel-failed"]
  /\ UNCHANGED <<orchVars, rb, ws, ord2, ord, cs, req, ex, wf>>

\* exec(), execOrFail() or execAll(), up to the command handed to the
\* transport: exec() throws on a session that is not connected
execGuard ==
  /\ \E op \in ExecOps :
       ssh' = IF NotConnected(ssh)
              THEN [ssh EXCEPT !.op = op, !.request = "none",
                               !.last = "SSH not connected"]
              ELSE [ssh EXCEPT !.op = op, !.request = "command",
                               !.last = "exec"]
  /\ UNCHANGED <<orchVars, rb, ws, ord2, ord, cs, req, ex, wf>>

\* disconnect() called on the session
disconnect ==
  /\ \E d \in Disconnected(ssh) :
       ssh' = [d[1] EXCEPT !.op = "none", !.request = "none",
                           !.last = "disconnect-" \o d[2]]
  /\ UNCHANGED <<orchVars, rb, ws, ord2, ord, cs, req, ex, wf>>

\* A fresh session and its user
InitSsh ==
  /\ InitOrch /\ ~config.domain /\ ~config.createSnapshot /\ ord2 = NoOrder
  /\ rb = NoRollback /\ ws = NoWait /\ InitClient /\ InitSession

NextSsh ==
  \/ connect
  \/ connectReady
  \/ connectError
  \/ connectTimeout
  \/ getSftp
  \/ sftpConnect
  \/ execGuard
  \/ disconnect

SpecSsh == InitSsh /\ [][NextSsh]_vars

\* ------------------------------------- exec, execOrFail, execAll on a session
\* A session on which connect() has succeeded
ReadySession ==
  [NoSession EXCEPT !.client = 1, !.transports[1] = "ready",
                    !.connected = TRUE, !.results[1] = "resolved",
                    !.last = "ready"]

\* What the remote side does with a command: its stream closes at some time
\* with an exit code (or none) after some output, the exec request is
\* refused, or nothing ever comes back
Remotes ==
  [kind : {"close"}, at : RemoteTimes, code : ExitCodes, out : Outputs]
  \cup [kind : {"err"}, at : RemoteTimes, code : {0}, out : {NoOutput}]
  \cup [kind : {"never"}, at : {0}, code : {0}, out : {NoOutput}]

\* options?.timeout ?? this.config.commandTimeout
Timeout(override) == IF override # Undef THEN override ELSE CommandTimeout

\* String.prototype.trim on the captured output
Trim(text) ==
  CASE text = "done\n" -> "done"
    [] text = "oops\n" -> "oops"
    [] text = " " -> ""
    [] OTHER -> text

\* The value exec() resolves with when the stream of command k closes
ExecResult(k, remote) ==
  [command |-> k, code |-> IF remote.code = Undef THEN 0 ELSE remote.code,
   stdout |-> Trim(remote.out.stdout), stderr |-> Trim(remote.out.stderr)]

\* exec() on command k of the call: the guard, then the timer is armed and
\* the command handed to the transport
StartExec(e, k, remote) ==
  IF NotConnected(ssh)
  THEN [e EXCEPT !.pc = "done", !.outcome = "SSH not connected"]
  ELSE [e EXCEPT !.pc = "running", !.timeout = Timeout(e.override),
                 !.timer = TRUE, !.remote = remote, !.stream = "pending",
                 !.promise = "pending", !.settles = 0, !.started = k]

\* The promise of the exec() in progress is settled with value
SettleExec(e, how, value) ==
  LET p == Settle(e.promise, how)
  IN  [e EXCEPT !.promise = p,
                !.value = IF p = e.promise THEN @ ELSE value,
                !.settles = IF p = e.promise THEN @ ELSE @ + 1]

\* Timers and stream events are delivered in the order of their times
TimerDue(e) ==
  /\ e.timer
  /\ e.stream # "pending" \/ e.remote.kind = "never" \/ e.timeout <= e.remote.at

RemoteDue(e) ==
  /\ e.stream = "pending" /\ e.remote.kind # "never"
  /\ ~e.timer \/ e.remote.at <= e.timeout

\* exec(command, options) called
exec ==
  /\ ex.pc = "idle"
  /\ \E override \in TimeoutOverrides, remote \in Remotes :
       ex' = StartExec([NoExec EXCEPT !.caller = "exec", !.commands = 1,
                                      !.override = override], 1, remote)
  /\ UNCHANGED <<orchVars, rb, ws, ord2, ord, cs, req, ssh, wf>>

\* execOrFail(command, options) called
execOrFail ==
  /\ ex.pc = "idle"
  /\ \E override \in TimeoutOverrides, remote \in Remotes :
       ex' = StartExec([NoExec EXCEPT !.caller = "execOrFail", !.commands = 1,
                                      !.override = override], 1, remote)
  /\ UNCHANGED <<orchVars, rb, ws, ord2, ord, cs, req, ssh, wf>>

\* execAll(commands, options) called with the commands 1..n
execAll ==
  /\ ex.pc = "idle"
  /\ \E n \in 0..MaxCommands, override \in TimeoutOverrides, remote \in Remotes :
       LET call == [NoExec EXCEPT !.caller = "execAll", !.commands = n,
                                  !.override = override]
       IN  ex' = IF n = 0
                 THEN [call EXCEPT !.pc = "done", !.outcome = "returned"]
                 ELSE StartExec(call, 1, remote)
  /\ UNCHANGED <<orchVars, rb, ws, ord2, ord, cs, req, ssh, wf>>

\* The timer of exec() fires
execTimer ==
  /\ TimerDue(ex)
  /\ ex' = [SettleExec(ex, "timeout", NoExecResult) EXCEPT !.timer = FALSE]
  /\ UNCHANGED <<orchVars, rb, ws, ord2, ord, cs, req, ssh, wf>>

\* The callback of client.exec is called with an error
execCallback ==
  /\ RemoteDue(ex) /\ ex.remote.kind = "err"
  /\ ex' = [SettleExec(ex, "exec-error", NoExecResult)
               EXCEPT !.timer = FALSE, !.stream = "none"]
  /\ UNCHANGED <<orchVars, rb, ws, ord2, ord, cs, req, ssh, wf>>

\* The 'close' handler of the stream
streamClose ==
  /\ RemoteDue(ex) /\ ex.remote.kind = "close"
  /\ ex' = [SettleExec(ex, "result", ExecResult(ex.started, ex.remote))
               EXCEPT !.timer = FALSE, !.stream = "closed"]
  /\ UNCHANGED <<orchVars, rb, ws, ord2, ord, cs, req, ssh, wf>>

\* if (result.code !== 0) in execOrFail
Failed_Never(res) == FALSE

Failed(res) == res.code # 0

\* The for loop of execAll has another command after this result
MoreCommands_UntilFailure(e, res) == e.started < e.commands /\ res.code = 0

MoreCommands(e, res) == e.started < e.commands

\* The caller of exec() resumes once its promise is settled
execSettled ==
  /\ ex.pc = "running" /\ ex.promise # "pending"
  /\ \E remote \in Remotes :
       ex' =
         IF ex.promise # "result"
         THEN [ex EXCEPT !.pc = "done", !.outcome = ex.promise]
         ELSE IF ex.caller = "exec"
         THEN [ex EXCEPT !.pc = "done", !.outcome = "returned",
                         !.results = <<ex.value>>]
         ELSE IF ex.caller = "execOrFail"
         THEN IF Failed(ex.value)
              THEN [ex EXCEPT !.pc = "done", !.outcome = "Command failed",
                              !.thrown = ex.value]
              ELSE [ex EXCEPT !.pc = "done", !.outcome = "returned",
                              !.returned = ex.value.stdout]
         ELSE IF MoreCommands(ex, ex.value)
         THEN StartExec([ex EXCEPT !.results = Append(@, ex.value)],
                        ex.started + 1, remote)
         ELSE [ex EXCEPT !.pc = "done", !.outcome = "returned",
                         !.results = Append(@, ex.value)]
  /\ UNCHANGED <<orchVars, rb, ws, ord2, ord, cs, req, ssh, wf>>

\* A session, fresh or connected, on which no command runs
InitExec ==
  /\ InitOrch /\ ~config.domain /\ ~config.createSnapshot /\ ord2 = NoOrder
  /\ rb = NoRollback /\ ws = NoWait /\ InitClient
  /\ ssh \in {NoSession, ReadySession} /\ ex = NoExec /\ wf = NoProbe

NextExec ==
  \/ exec
  \/ execOrFail
  \/ execAll
  \/ execTimer
  \/ execCallback
  \/ streamClose
  \/ execSettled

SpecExec == InitExec /\ [][NextExec]_vars

\* ------------------------------------------------ SshProvisioner.waitForSsh
\* One iteration of the loop: checkPort answered open after d ms; it never
\* rejects, so the catch block is not reached. An open port ends the loop,
\* a closed one is followed by the retry sleep.
OnProbe_Optimistic(w, open, d) ==
  [w EXCEPT !.pc = "grace", !.attempt = @ + 1, !.open = open,
            !.elapsed = @ + d]

OnProbe(w, open, d) ==
  IF open
  THEN [w EXCEPT !.pc = "grace", !.attempt = @ + 1, !.open = TRUE,
                 !.elapsed = @ + d]
  ELSE [w EXCEPT !.attempt = @ + 1, !.open = FALSE,
                 !.elapsed = @ + d + RetryInterval]

\* One iteration of the loop in which checkPort rejected (socket.connect
\* threw on its arguments): the catch block calls onRetry, then the retry
\* sleep
OnProbeError(w) ==
  [w EXCEPT !.attempt = @ + 1, !.open = FALSE,
            !.onRetry = Append(@, w.attempt + 1),
            !.elapsed = @ + RetryInterval]

\* while (Date.now() - startTime < timeout): a probe and what follows it
waitForSshProbe ==
  /\ wf.pc = "loop" /\ wf.elapsed < wf.timeout
  /\ IF wf.invalid
     THEN wf' = OnProbeError(wf)
     ELSE \E open \in BOOLEAN, d \in ProbeTimes : wf' = OnProbe(wf, open, d)
  /\ UNCHANGED <<orchVars, rb, ws, ord2, ord, cs, req, ssh, ex>>

\* The wait that follows an open port, then the return
waitForSshGrace ==
  /\ wf.pc = "grace"
  /\ wf' = [wf EXCEPT !.pc = "done", !.graced = TRUE, !.outcome = "ok",
                       !.elapsed = @ + GraceDelay]
  /\ UNCHANGED <<orchVars, rb, ws, ord2, ord, cs, req, ssh, ex>>

\* The loop condition is false: the timeout error
waitForSshTimeout ==
  /\ wf.pc = "loop" /\ wf.elapsed >= wf.timeout
  /\ wf' = [wf EXCEPT !.pc = "done", !.outcome = "Timeout"]
  /\ UNCHANGED <<orchVars, rb, ws, ord2, ord, cs, req, ssh, ex>>

\* waitForSsh(host, {timeout}) has been called
InitProbe ==
  /\ InitOrch /\ ~config.domain /\ ~config.createSnapshot /\ ord2 = NoOrder
  /\ rb = NoRollback /\ ws = NoWait /\ InitClient
  /\ ssh = NoSession /\ ex = NoExec
  /\ \E timeout \in SshWaitTimeouts, invalid \in BOOLEAN :
       wf = [NoProbe EXCEPT !.pc = "loop", !.timeout = timeout,
                            !.invalid = invalid]

NextProbe == waitForSshProbe \/ waitForSshGrace \/ waitForSshTimeout

SpecProbe == InitProbe /\ [][NextProbe]_vars

\* ------------------------------------------------------------ termination
\* One call at a time: a first deployment call and rollbacks after it on one
\* orchestrator, or one call of orderVps, createSnapshot, waitForStatus or
\* waitForSsh made directly. A call that has begun goes on: every remote
\* call it awaits returns or fails, and every sleep ends.
NoDirectCall ==
  /\ ord = NoOrder /\ cs = NoCreate /\ wf = NoProbe
  /\ entry # "none" \/ ws = NoWait

InitLive == Init \/ InitOrder \/ InitCreate \/ InitWait \/ InitProbe

Running ==
  \/ checkBalance
  \/ orderVps
  \/ waitForProvisioning
  \/ waitForSsh
  \/ setupServer
  \/ deployApplication
  \/ waitForContainerHealth
  \/ configureNginx
  \/ obtainSsl
  \/ verifyHealth
  \/ healthProbe
  \/ createSuccessSnapshot
  \/ complete
  \/ Finally
  \/ rollbackRestore
  \/ rollbackRestored
  \/ waitForStatusPoll
  \/ waitForStatusTimeout
  \/ rollbackReturn
  \/ orderListBefore
  \/ orderPost
  \/ orderSleep
  \/ orderList
  \/ orderExhausted
  \/ createListBefore
  \/ createPost
  \/ createSleep
  \/ createList
  \/ createExhausted
  \/ waitForSshProbe
  \/ waitForSshGrace
  \/ waitForSshTimeout

NextLive ==
  \/ NoDirectCall /\ setProgressCallback
  \/ NoDirectCall /\ runs = 0 /\ deploy
  \/ NoDirectCall /\ runs = 0 /\ deployToExisting
  \/ NoDirectCall /\ rollback
  \/ Running
  \/ providerPublish
  \/ otherActor
  \/ snapshotPublish

SpecFirst == InitLive /\ [][NextLive]_vars

SpecLive == InitLive /\ [][NextLive]_vars /\ WF_vars(Running)

TypeOK ==
  /\ pc \in {"idle", "check-balance", "order-vps", "wait-provisioning",
             "wait-ssh", "setup-server", "deploy-application",
             "container-health", "configure-nginx", "obtain-ssl",
             "health-check", "health-probe", "create-snapshot", "complete",
             "finally", "restore-snapshot", "restoring", "rollback-wait"}
  /\ entry \in {"none", "deploy", "existing", "rollback"}
  /\ outcome \in {"none", "result", "exception"}
  /\ client \in {"null", "live", "dead"}
  /\ sftpClient \in {"null", "unestablished", "open"}
  /\ connected \in BOOLEAN
  /\ runs \in 0..MaxRuns
  /\ rb.outcome \in {"none", "returned", "exception"}
  /\ ws.pc \in {"idle", "loop", "done"}
  /\ ws.outcome \in {"none", "ok", "ErrorState", "Timeout", "ApiError"}
  /\ inspected \in ContainerStatuses \cup {"none"}

\* ------------------------------------------------------------- properties
Range(seq) == {seq[k] : k \in 1..Len(seq)}

\* The entries appended to this.errors by the running (or last) call
RunErrors(errs) == {errs[k] : k \in (atStart.nerrors + 1)..Len(errs)}

\* The call has left its try/catch: only the finally block is left, or done
Settled == entry \in {"deploy", "existing"} /\ pc \in {"finally", "idle"}

\* The stages whose failure aborts the call (WaitReachable is "wait-ssh",
\* Connect is "connect", BaseConfig is "setup-server")
FatalStages == {"check-balance", "order-vps", "wait-provisioning", "wait-ssh",
                "connect", "setup-server", "deploy-application",
                "configure-nginx"}

\* A fatal stage or a progress callback failed in this call
FatalFailure == failure.kind = "callback" \/ failure.stage \in FatalStages

\* The stages of a call in which nothing fails, from the entry on
ExpectedStages ==
  (IF entry = "deploy"
   THEN <<"check-balance", "order-vps", "wait-provisioning">> ELSE <<>>)
  \o <<"wait-ssh", "connect", "setup-server", "deploy-application",
       "configure-nginx">>
  \o (IF config.domain THEN <<"obtain-ssl">> ELSE <<>>)
  \o <<"health-check">>
  \o (IF config.createSnapshot THEN <<"create-snapshot">> ELSE <<>>)
  \o <<"complete">>

\* C1: in every call of deploy() or deployToExisting(), whichever stage fails
\* or none, the orchestrator calls disconnect() exactly once: not before the
\* try/catch is left, once when the call has ended; and when a result is
\* returned that disconnect has completed (the session is released).
C1_DisconnectOnce ==
  /\ pc # "idle" => disconnectCalls = 0
  /\ (pc = "idle" /\ entry \in {"deploy", "existing"}) => disconnectCalls = 1
  /\ outcome = "result" =>
       (~connected /\ client = "null" /\ sftpClient = "null")

\* C1 witness: a call that failed in BaseConfig with the transfer channel
\* open has returned its result after one disconnect
C1_Witness ==
  /\ outcome = "result" /\ ~result.success
  /\ failure.stage = "setup-server" /\ failure.msg = CommandFailed
  /\ disconnectCalls = 1

\* C2 (as claimed): no call of deploy() or deployToExisting() ever ends by
\* raising; whatever fails (a stage, the progress callback, the final
\* disconnect) the call returns a result record.
C2_NeverRaises == outcome # "exception"

\* C3: in deploy(), when one of the fatal stages fails, no later stage is
\* started, the failure's message is the last entry of errors, and the
\* returned result has success=false and healthCheckPassed=false.
C3_FatalAborts ==
  (Settled /\ entry = "deploy" /\ failure.stage \in FatalStages) =>
    /\ stagesRun[Len(stagesRun)] = failure.stage
    /\ Len(errors) > 0 /\ errors[Len(errors)] = failure.msg
    /\ ~pending.success /\ ~pending.healthCheckPassed
    /\ pending.errors = errors
    /\ outcome = "result" =>
         /\ ~result.success /\ ~result.healthCheckPassed
         /\ result.errors[Len(result.errors)] = failure.msg

\* C3 witness: deploy() returned after DeployApp failed on an unhealthy
\* container
C3_Witness ==
  /\ entry = "deploy" /\ outcome = "result"
  /\ failure.stage = "deploy-application" /\ failure.msg = Unhealthy
  /\ ~result.success

\* C4: when no fatal stage and no progress callback fails and every health
\* probe of the retry budget misses, the result has success=true and
\* healthCheckPassed=false and the errors of this call contain the
\* health-check-failure entry.
C4_HealthNonFatal ==
  (/\ outcome = "result" /\ ~FatalFailure
   /\ Len(probes) = HealthCheckRetries
   /\ \A k \in 1..Len(probes) : probes[k] # "exit0") =>
    /\ result.success /\ ~result.healthCheckPassed
    /\ HealthFailedMsg \in RunErrors(result.errors)

\* C4 witness: a call returned success after all probes missed
C4_Witness ==
  /\ outcome = "result" /\ result.success /\ ~result.healthCheckPassed
  /\ Len(probes) = HealthCheckRetries
  /\ "error" \in Range(probes) /\ "exit0" \notin Range(probes)

\* C5: createSnapshot is requested only in a call whose health check passed
\* and with options.createSnapshot set; in a call whose health check did not
\* pass or with snapshots disabled it is never requested and the snapshot id
\* of the result is none created by this call.
C5_SnapshotGated ==
  /\ "createSnapshot" \in Range(apiCalls) =>
       (healthCheckPassed /\ config.createSnapshot)
  /\ (Settled /\ (~healthCheckPassed \/ ~config.createSnapshot)) =>
       /\ "createSnapshot" \notin Range(apiCalls)
       /\ "create-snapshot" \notin Range(stagesRun)
       /\ pending.snapshotId \in {Undef, atStart.snapshotId}
       /\ outcome = "result" => result.snapshotId \in {Undef, atStart.snapshotId}

\* C5 witness: snapshots are enabled, the health check failed, the call
\* returned
C5_Witness ==
  /\ outcome = "result" /\ config.createSnapshot /\ result.success
  /\ "health-check" \in softFailed

\* C6: a failure of the Certificate or of the Snapshot stage appends exactly
\* one entry to errors and the call goes on with the next stage (HealthCheck
\* after Certificate, Complete after Snapshot); with no fatal failure beside
\* it the result has success=true.
C6_SoftStep ==
  /\ (pc = "obtain-ssl" /\ "obtain-ssl" \in softFailed') =>
       /\ errors' = Append(errors, SslFailedMsg)
       /\ pc' = "health-check"
  /\ (pc = "create-snapshot" /\ "create-snapshot" \in softFailed') =>
       /\ errors' = Append(errors, SnapshotFailedMsg)
       /\ pc' = "complete"
  /\ (pc = "health-check" /\ "obtain-ssl" \in softFailed) =>
       "health-check" \in Range(stagesRun')
  /\ (outcome' = "result" /\ ~FatalFailure'
      /\ softFailed' \cap {"obtain-ssl", "create-snapshot"} # {}) =>
       result'.success
C6_SoftFailures == [][C6_SoftStep]_vars

\* C6 witness: the certificate failed, HealthCheck was reached, success
C6_Witness ==
  /\ outcome = "result" /\ result.success
  /\ "obtain-ssl" \in softFailed
  /\ "health-check" \in Range(stagesRun)
  /\ SslFailedMsg \in RunErrors(result.errors)

\* C7: when getBalance returned 0 or less, no order request is issued in that
\* call, errors ends with "Insufficient account balance", and the result of
\* deploy() has success=false and contains that message.
C7_BalanceGate ==
  (balanceSeen # Undef /\ balanceSeen <= 0) =>
    /\ "orderVps" \notin Range(apiCalls)
    /\ "order-vps" \notin Range(stagesRun)
    /\ pc \in {"finally", "idle"}
    /\ errors[Len(errors)] = InsufficientMsg
    /\ outcome = "result" =>
         (~result.success /\ InsufficientMsg \in RunErrors(result.errors))

\* C7 witness: deploy() returned after getBalance answered 0
C7_Witness ==
  /\ outcome = "result" /\ balanceSeen = 0 /\ ~result.success

\* C8: when nothing fails in deploy(), every stage has run exactly once in
\* pipeline order (Certificate only with a domain, Snapshot only if enabled)
\* and the result has success=true, healthCheckPassed=true and the snapshot
\* id createSnapshot returned.
C8_HappyPath ==
  (/\ entry = "deploy" /\ Settled /\ pending.success
   /\ failure = NoFailure /\ softFailed = {}) =>
    /\ stagesRun = ExpectedStages
    /\ pending.healthCheckPassed
    /\ IF config.createSnapshot
       THEN runSnapshots = {pending.snapshotId}
       ELSE "createSnapshot" \notin Range(apiCalls)
    /\ outcome = "result" => result = pending

\* C8 witness: deploy() with a domain and snapshots returned success with
\* the snapshot of this call
C8_Witness ==
  /\ entry = "deploy" /\ outcome = "result" /\ result.success
  /\ failure = NoFailure /\ softFailed = {}
  /\ config.domain /\ config.createSnapshot
  /\ result.snapshotId \in runSnapshots

\* C9 (as claimed): deployToExisting issues no balance, order or status call
\* and, when nothing fails, runs every stage from WaitReachable on, BaseConfig
\* included, in the order of deploy().
C9_SkipsThree ==
  (entry = "existing" /\ Settled) =>
    /\ Range(apiCalls) \cap {"getBalance", "orderVps", "waitForStatus"} = {}
    /\ (pending.success /\ failure = NoFailure /\ softFailed = {}) =>
         stagesRun = ExpectedStages

\* C10 (as claimed): the resource id and address of a failed result of
\* deploy() are those the order of that same call returned, or 0 and the
\* empty address when that call obtained none.
C10_NoStaleIds ==
  (entry = "deploy" /\ outcome = "result" /\ ~result.success) =>
    /\ result.serverId = (IF runOrder = Undef THEN 0 ELSE runOrder)
    /\ result.serverIp = (IF runOrder = Undef THEN EmptyIp ELSE IpOf(runOrder))


\* C11: within one call the resource id and address are written only by
\* the order step (or by the seeding at the entry of deployToExisting); no
\* later stage changes them, and the id and address of the returned result
\* are those the order returned (or those passed to deployToExisting).
C11_Step ==
  /\ (serverId' # serverId \/ serverIp' # serverIp)
       => (pc = "order-vps" \/ (pc = "idle" /\ entry' = "existing"))
  /\ runOrder' # Undef
       => (serverId' = runOrder' /\ serverIp' = IpOf(runOrder'))
  /\ (outcome' = "result" /\ entry' = "deploy" /\ runOrder' # Undef)
       => (result'.serverId = runOrder' /\ result'.serverIp = IpOf(runOrder'))
  /\ (outcome' = "result" /\ entry' = "existing")
       => (result'.serverId = argId' /\ result'.serverIp = argIp')

C11_IdsStable == [][C11_Step]_vars

C11_Witness ==
  /\ outcome = "result" /\ entry = "deploy" /\ runOrder # Undef
  /\ "health-check" \in Range(stagesRun)
  /\ result.serverId = runOrder /\ result.serverIp = IpOf(runOrder)


C13_RollbackOrder ==
  (entry = "rollback" /\ atStart.serverId # Undef) =>
    /\ apiCalls \in {<<>>, <<"restoreSnapshot">>,
                     <<"restoreSnapshot", "waitForStatus">>}
    /\ pc \in {"restoring", "rollback-wait", "idle"} =>
         (Len(apiCalls) >= 1 /\ apiCalls[1] = "restoreSnapshot")
    /\ (ws.pc # "idle" \/ "waitForStatus" \in Range(apiCalls)) =>
         (rb.restore = "ok" /\ ws.target = "running")
    /\ rb.outcome = "returned" =>
         /\ ws.pc = "done" /\ ws.outcome = "ok" /\ ws.last = "running"
         /\ apiCalls = <<"restoreSnapshot", "waitForStatus">>
    /\ (pc = "idle" /\ (rb.restore = "failed" \/ ws.outcome \notin {"none", "ok"})) =>
         (rb.outcome = "exception"
          /\ rb.error = (IF rb.restore = "failed" THEN ApiError ELSE ws.outcome))

\* C13 witness: a rollback after a deploy() that ordered a resource returned
\* normally; 'running' was the status last observed
C13_Witness ==
  /\ entry = "rollback" /\ atStart.serverId = 1
  /\ rb.outcome = "returned" /\ ws.last = "running"

\* C13 witness of the failure case: the wait timed out and rollback threw
C13_TimeoutReached ==
  /\ entry = "rollback" /\ rb.outcome = "exception" /\ rb.error = "Timeout"


\* C16: waitForStatus returns normally only after a poll observed the target
\* status; it fails as soon as a poll observes 'error' (the target being
\* another status) whatever is left of the timeout; and it fails with the
\* timeout error when the time is up and the target has not been observed.
C16_Step ==
  /\ ws'.outcome = "ok" => (ws.pc = "loop" /\ ws'.last = ws.target)
  /\ (ws'.last = "error" /\ ws.target # "error") =>
       (ws'.pc = "done" /\ ws'.outcome = "ErrorState")
  /\ (ws.pc = "loop" /\ ws.elapsed >= ws.timeout) => ws'.outcome = "Timeout"
  /\ ws'.outcome = "Timeout" => (ws.elapsed >= ws.timeout /\ ws'.last # ws.target)
  /\ (ws'.pc = "done" /\ ws'.last # ws.target) => ws'.outcome # "ok"

C16_WaitForStatus == [][C16_Step]_vars

\* C16 witness: the server went into 'error' while 'running' was awaited and
\* the wait failed at once
C16_Witness ==
  /\ entry = "none" /\ ws.pc = "done" /\ ws.target = "running"
  /\ ws.timeout = 40000 /\ ws.last = "error" /\ ws.outcome = "ErrorState"

\* C16 witness of the timeout case
C16_TimedOut ==
  /\ entry = "none" /\ ws.pc = "done" /\ ws.outcome = "Timeout"
  /\ ws.timeout = 15000 /\ ws.last = "stopped"


\* C14: when the provider acknowledges the order without resource details
\* and no other actor changes the account, orderVps returns exactly the id
\* that is absent from the pre-order listing and present in a post-order
\* listing (the server this order created), with that server's address and
\* an empty credential.
C14_ReturnsNewServer ==
  (ord.outcome = "ok" /\ ord.response = "success" /\ ~ord.foreign) =>
    /\ ord.returned.serverId = ord.created
    /\ ord.returned.serverId \notin ord.before
    /\ ord.returned.serverId \in ord.visible
    /\ ord.visible \ ord.before = {ord.returned.serverId}
    /\ ord.returned.ipv4 = IpOf(ord.returned.serverId)
    /\ ord.returned.password = ""

\* C14 witness: the new server showed up in the third listing of an account
\* that held two servers
C14_Witness ==
  /\ ord.outcome = "ok" /\ ord.response = "success" /\ ~ord.foreign
  /\ ord.before = {50, 51} /\ ord.listings = 3
  /\ ord.returned.serverId = ord.created

\* C15: the search makes at most 12 listings, each after its delay; when
\* none of them shows an id outside the pre-order set orderVps fails and
\* returns no id; on an explicit failure answer of the provider it fails
\* without any listing after the order.
C15_Step ==
  /\ ord'.listings <= OrderMaxAttempts /\ ord'.listings <= ord'.sleeps
  /\ (ord.pc = "sleep" /\ ord.listings = OrderMaxAttempts /\ ord'.pc # "sleep") =>
       (ord'.pc = "done" /\ ord'.outcome = "NotFound")
  /\ ord'.outcome = "NotFound" =>
       (ord.listings = OrderMaxAttempts /\ ord'.returned = NoReturn)
  /\ (ord'.pc = "done" /\ ord'.outcome # "ok") => ord'.returned = NoReturn
  /\ ord'.response \in {"error", "failure"} =>
       /\ ord'.pc = "done" /\ ord'.outcome = "OrderFailed"
       /\ ord'.sleeps = 0 /\ ord'.listings = 0
       /\ ord'.returned = NoReturn

C15_OrderFails == [][C15_Step]_vars

\* C15 witness: twelve listings without a new id, orderVps failed
C15_Witness ==
  /\ ord.pc = "done" /\ ord.outcome = "NotFound"
  /\ ord.response = "success" /\ ord.listings = OrderMaxAttempts
  /\ ord.returned = NoReturn

\* C15 witness of the explicit failure answer
C15_Refused ==
  /\ ord.pc = "done" /\ ord.response = "error" /\ ord.outcome = "OrderFailed"


\* C17: createSnapshot lists the snapshots at most 6 times in search of an
\* id that was not in the listing made before the request and returns that
\* snapshot; when the search ends without one it returns a placeholder with
\* status 'pending' and does not fail.
C17_Step ==
  /\ cs'.listings <= SnapshotMaxAttempts /\ cs'.listings <= cs'.sleeps
  /\ cs'.outcome = "found" =>
       /\ cs'.returned.id \notin cs'.before
       /\ cs'.returned.id \in cs'.visible
  /\ (cs.pc = "sleep" /\ cs.listings = SnapshotMaxAttempts /\ cs'.pc # "sleep") =>
       /\ cs'.pc = "done" /\ cs'.outcome = "placeholder"
       /\ cs'.returned.status = "pending"
  /\ cs'.outcome = "placeholder" =>
       (cs.listings = SnapshotMaxAttempts /\ cs'.returned.status = "pending")

C17_SnapshotSearch == [][C17_Step]_vars

\* C17 witness: six listings showed nothing new, the placeholder came back
C17_Witness ==
  /\ cs.pc = "done" /\ cs.outcome = "placeholder" /\ cs.response = "success"
  /\ cs.listings = SnapshotMaxAttempts /\ cs.before = {900}
  /\ cs.returned.status = "pending"

\* C17 witness of the found case
C17_Found ==
  /\ cs.pc = "done" /\ cs.outcome = "found" /\ cs.listings = 2
  /\ cs.returned.id = cs.created

\* C18 (as claimed): every failed request, a non-success HTTP status or a
\* failure at network level, reaches the caller of the operation as a
\* ServersGuruApiError that carries the status code, never as a normal
\* return.
C18_TypedErrors ==
  (req.pc = "done" /\ req.answer \in {"http", "network"}) =>
    /\ req.outcome = "thrown"
    /\ req.thrown = "ServersGuruApiError"
    /\ req.statusCode # Undef


\* C19 (as claimed): a session never holds more than one live transport
\* connection: whatever the sequence of connect() and disconnect() calls,
\* connect() on a Connected session, after a failed connect or while an
\* earlier connect is still in progress included, every connection opened
\* before has been ended when a new one is opened.
C19_OneTransport == Cardinality(Live) <= 1

\* C20 (as claimed): whenever disconnect() finishes, normally or with an
\* error, the transport and the file-transfer sub-channel (if one was
\* created) have been released and the session is Disconnected.
C20_Released ==
  ssh.last \in {"disconnect-ok", "disconnect-threw"} =>
    /\ ssh.client = 0 /\ ssh.sftpClient = "null" /\ ~ssh.connected

\* C21 (as claimed): disconnect() is idempotent: on a session in any state
\* it finishes without error and leaves the session Disconnected, and a
\* second disconnect() right after again finishes without error, changes
\* nothing and ends no transport a second time.
C21_Idempotent ==
  ssh.last \in {"disconnect-ok", "disconnect-threw"} =>
    /\ ssh.last = "disconnect-ok"
    /\ ssh.client = 0 /\ ssh.sftpClient = "null" /\ ~ssh.connected
    /\ \A d \in Disconnected(ssh) :
         d[2] = "ok" /\ d[1] = ssh /\ d[1].transports = ssh.transports

\* C22 (as claimed): a connect() whose handshake does not complete within
\* connectionTimeout fails with the connection-timeout error, one whose
\* handshake or authentication fails fails with the connection error, and
\* in both cases the session is not Connected afterwards, so that a
\* following exec fails with "SSH not connected".
C22_Step ==
  \A t \in 1..MaxConnects :
    (ssh.results[t] = "pending" /\ ssh'.results[t] \in {"timeout", "error"}) =>
      /\ ssh'.results[t] = (IF ssh'.last = "timeout" THEN "timeout" ELSE "error")
      /\ ~ssh'.connected
      /\ NotConnected(ssh')

C22_ConnectFails == [][C22_Step]_vars

\* C23: exec, execOrFail, execAll and the file operations uploadContent,
\* uploadTemplate, fileExists and mkdir fail with "SSH not connected" on a
\* session that is not Connected (before any connect, after a disconnect,
\* after a failed connect), and hand nothing to the remote host.
C23_Step ==
  (~ssh.connected /\ ssh'.last \in {"SSH not connected", "exec", "sftp",
                                      "sftp-failed"}) =>
    (ssh'.last = "SSH not connected" /\ ssh'.request = "none")

C24_Step ==
  LET limit == IF ex.override # Undef THEN ex.override ELSE CommandTimeout
  IN
  /\ (ex.promise = "pending" /\ ex'.promise = "timeout") =>
        (ex.remote.kind = "never" \/ ex.remote.at >= limit)
  /\ (ex.promise = "pending" /\ ex'.promise \in {"result", "exec-error"}) =>
        ex.remote.at <= limit
  /\ (ex.promise \in {"result", "timeout", "exec-error"}
        /\ ex'.started = ex.started) =>
        (ex'.promise = ex.promise /\ ex'.value = ex.value /\ ex'.settles = 1)
  /\ (ex.pc = "running" /\ ex'.pc = "done") => ex.settles = 1
  /\ (ex.pc = "running" /\ ex'.pc = "done" /\ ex.caller = "exec") =>
        ex'.outcome = (IF ex.promise = "result" THEN "returned" ELSE ex.promise)

C24_ExecTimeout == [][C24_Step]_vars

\* The stream closed after the timer had rejected the call
C24_Witness ==
  /\ ex.caller = "exec" /\ ex.pc = "done" /\ ex.outcome = "timeout"
  /\ ex.override = 1000 /\ ex.stream = "closed" /\ ex.settles = 1

\* C25: execOrFail returns the command's stdout when it exits with code 0
\* and fails with the command-failed error carrying the captured stdout and
\* stderr for every non-zero exit code; it never returns normally for a
\* non-zero exit.
C25_ExecOrFail ==
  (ex.caller = "execOrFail" /\ ex.pc = "done" /\ ex.promise = "result") =>
    /\ ex.remote.code = 0 =>
          (ex.outcome = "returned" /\ ex.returned = Trim(ex.remote.out.stdout))
    /\ ex.remote.code \notin {0, Undef} =>
          /\ ex.outcome = "Command failed"
          /\ ex.thrown.code = ex.remote.code
          /\ ex.thrown.stdout = Trim(ex.remote.out.stdout)
          /\ ex.thrown.stderr = Trim(ex.remote.out.stderr)

\* A command that exited with 127 made execOrFail fail with its stderr
C25_Witness ==
  /\ ex.caller = "execOrFail" /\ ex.pc = "done"
  /\ ex.remote.code = 127 /\ ex.outcome = "Command failed"
  /\ ex.thrown.stderr = "oops"

\* C26: execAll runs the commands one at a time in list order, command i+1
\* not being started before command i has completed, and returns one result
\* per command in the same order; a non-zero exit code does not stop the
\* later commands, an exec error or timeout aborts the remaining ones.
C26_Step ==
  (ex'.caller = "execAll" /\ ex'.started # ex.started) =>
    /\ ex'.started = Len(ex'.results) + 1
    /\ ex.started > 0 => (ex.promise = "result" /\ ex'.started = ex.started + 1)

C26_Sequential ==
  /\ [][C26_Step]_vars
  /\ [](ex.caller = "execAll" /\ ex.pc = "done" =>
          /\ ex.outcome = "returned" <=> Len(ex.results) = ex.commands
          /\ \A k \in 1..Len(ex.results) : ex.results[k].command = k
          /\ ex.outcome # "returned" =>
                (ex.started <= Len(ex.results) + 1 /\ ex.promise # "result"))

\* The first command exited with 1, the second one ran and both results
\* were returned
C26_Witness ==
  /\ ex.caller = "execAll" /\ ex.pc = "done" /\ ex.outcome = "returned"
  /\ Len(ex.results) = 2 /\ ex.results[1].code = 1

\* The second command timed out and the call failed with one result kept
C26_Aborted ==
  /\ ex.caller = "execAll" /\ ex.pc = "done" /\ ex.outcome = "timeout"
  /\ ex.commands = 2 /\ Len(ex.results) = 1

\* C27: waitForSsh returns normally only after one of its probes found the
\* host reachable, and after the fixed grace delay; it fails with the
\* timeout error when no probe started before the timeout succeeds; it
\* never reports success without a successful probe.
C27_Step ==
  /\ (wf.pc # "done" /\ wf'.outcome = "ok") =>
        (wf.open /\ wf.attempt >= 1 /\ wf'.graced
         /\ wf'.elapsed = wf.elapsed + GraceDelay)
  /\ (wf.pc # "done" /\ wf'.outcome = "Timeout") =>
        (wf.elapsed >= wf.timeout /\ ~wf.open)
  /\ (wf.pc = "loop" /\ wf'.pc = "loop") => ~wf'.open
  /\ wf.pc = "done" => wf' = wf

C27_WaitForSsh == [][C27_Step]_vars

\* Two probes found the port closed, the third found it open
C27_Witness ==
  /\ wf.pc = "done" /\ wf.outcome = "ok" /\ wf.attempt = 3
  /\ wf.timeout = 12000

\* No probe succeeded before the timeout
C27_TimedOut ==
  /\ wf.pc = "done" /\ wf.outcome = "Timeout" /\ wf.attempt = 2

\* C28: provided every remote call returns or fails, deploy(),
\* deployToExisting() and rollback() terminate, and so does every polling
\* loop they rely on: the search for the new server stops after 12
\* attempts, the search for the new snapshot after 6, the container-health
\* wait after 30, the health probes after healthCheckRetries, and
\* waitForStatus and waitForSsh once their timeout has elapsed.
C28_Budget ==
  /\ ord.sleeps <= OrderMaxAttempts /\ ord.listings <= OrderMaxAttempts
  /\ cs.sleeps <= SnapshotMaxAttempts /\ cs.listings <= SnapshotMaxAttempts
  /\ pc = "container-health" => i < ContainerMaxAttempts
  /\ pc = "health-probe" => i < HealthCheckRetries
  /\ Len(probes) <= HealthCheckRetries
  /\ ws.pc = "loop" =>
        \E d \in RequestTimes : ws.elapsed < ws.timeout + d + DefaultPollInterval
  /\ wf.pc = "loop" => wf.elapsed < wf.timeout + ProbeTimeout + RetryInterval

C28_Terminates ==
  /\ []C28_Budget
  /\ (pc # "idle") ~> (pc = "idle")
  /\ (ws.pc = "loop") ~> (ws.pc = "done")
  /\ (ord.pc # "idle") ~> (ord.pc = "done")
  /\ (cs.pc # "idle") ~> (cs.pc = "done")
  /\ (wf.pc # "idle") ~> (wf.pc = "done")

\* rollback() returned after its waitForStatus had polled until the timeout
C28_Witness ==
  /\ entry = "rollback" /\ pc = "idle" /\ rb.outcome = "exception"
  /\ ws.pc = "done" /\ ws.outcome = "Timeout" /\ ws.last = "stopped"

\* The container-health wait used its last attempt
C28_LastAttempt == pc = "container-health" /\ i = ContainerMaxAttempts - 1

\* The steps a progress notification can carry, in pipeline order
Pipeline ==
  <<"check-balance", "order-vps", "wait-provisioning", "wait-ssh",
    "setup-server", "deploy-application", "configure-nginx", "obtain-ssl",
    "health-check", "create-snapshot", "complete">>

Position ==
  [step \in Range(Pipeline) |-> CHOOSE k \in 1..Len(Pipeline) : Pipeline[k] = step]

InOrder(steps) ==
  /\ \A k \in 1..Len(steps) : steps[k] \in Range(Pipeline)
  /\ \A k \in 1..(Len(steps) - 1) : Position[steps[k]] < Position[steps[k + 1]]

Ended == entry \in {"deploy", "existing"} /\ pc = "idle"

\* C29 (as claimed): each stage entered, Connect included, emits exactly
\* one progress notification carrying its name; the notifications follow
\* the pipeline order; 'complete' is notified only in runs that return
\* success=true.
C29_AsClaimed ==
  /\ \A k \in 1..Len(stagesRun) :
       Cardinality({j \in 1..Len(notified) : notified[j] = stagesRun[k]}) = 1
  /\ InOrder(SelectSeq(notified, LAMBDA step : step # "connect"))
  /\ (Ended /\ "complete" \in Range(notified)) =>
       (outcome = "result" /\ result.success)

\* C29 (amended): each stage entered other than Connect emits exactly one
\* progress notification carrying its name, before any of its work, and
\* Connect emits none; the notifications follow the pipeline order;
\* 'complete' is notified only after every stage before it has passed, and
\* the run then returns success=true unless the callback throws on
\* 'complete' or the final disconnect fails; a run that returns
\* success=true has notified 'complete'.
C29_Progress ==
  entry \in {"deploy", "existing"} =>
    /\ notified = SelectSeq(stagesRun, LAMBDA stage : stage # "connect")
    /\ InOrder(notified)
    /\ failure.kind = "callback" =>
         (notified # <<>> /\ notified[Len(notified)] = failure.stage)
    /\ "complete" \in Range(notified) =>
         (failure = NoFailure \/ (failure.stage = "complete"
                                   /\ failure.kind = "callback"))
    /\ (Ended /\ "complete" \in Range(notified)) =>
         \/ outcome = "result" /\ result.success
         \/ outcome = "result" /\ failure.stage = "complete"
         \/ outcome = "exception"
    /\ (Ended /\ outcome = "result" /\ result.success) =>
         notified[Len(notified)] = "complete"

\* A run connected, went through every stage and returned success=true
C29_Witness ==
  /\ Ended /\ entry = "deploy" /\ outcome = "result" /\ result.success
  /\ "connect" \in Range(stagesRun) /\ "obtain-ssl" \in Range(notified)
  /\ notified[Len(notified)] = "complete"

\* The callback threw on 'complete': the run returned success=false
C29_CompleteFailed ==
  /\ Ended /\ outcome = "result" /\ ~result.success
  /\ "complete" \in Range(notified)

\* C30 (as claimed): in every result deploy() or deployToExisting()
\* returns, each entry of errors has an entry in logs that records that
\* failure (the health-check error is matched by the log entries of its
\* failed attempts): the log list is a superset of the error list.
C30_LogsCoverErrors ==
  (Ended /\ outcome = "result") =>
    \A k \in 1..Len(result.errors) :
      \/ result.errors[k] = HealthFailedMsg
      \/ \E entry_ \in logs : entry_[2] = result.errors[k]

\* The HealthCheck stage of this call has ended (passed, failed, or never
\* reached its loop because the callback threw)
HealthDone ==
  /\ entry \in {"deploy", "existing"}
  /\ "health-check" \in Range(stagesRun)
  /\ pc \notin {"health-check", "health-probe"}

\* C31: the HealthCheck stage issues its probes one at a time, at most
\* healthCheckRetries of them; it stops at the first probe whose exit code
\* is 0 and reports passed; a non-zero exit or a probe error is a miss; it
\* reports failed only after exactly healthCheckRetries misses.
C31_HealthProbes ==
  /\ Len(probes) <= HealthCheckRetries
  /\ \A k \in 1..(Len(probes) - 1) : probes[k] # "exit0"
  /\ pc = "health-probe" =>
       (Len(probes) = i /\ i < HealthCheckRetries /\ ~healthCheckPassed
        /\ "exit0" \notin Range(probes) /\ "health-check" \notin softFailed)
  /\ (HealthDone /\ probes # <<>>) =>
       /\ healthCheckPassed <=> probes[Len(probes)] = "exit0"
       /\ ~healthCheckPassed <=> "health-check" \in softFailed
  /\ (entry \in {"deploy", "existing"} /\ "health-check" \in softFailed) =>
       /\ Len(probes) = HealthCheckRetries
       /\ "exit0" \notin Range(probes)
       /\ ~healthCheckPassed

\* C31 witness: the stage passed on its last allowed probe after a probe
\* that exited non-zero
C31_Witness ==
  /\ HealthDone /\ healthCheckPassed
  /\ Len(probes) = HealthCheckRetries
  /\ probes[1] = "nonzero" /\ probes[Len(probes)] = "exit0"

\* The stage reported failed after a probe error and a non-zero exit
C31_Failed ==
  /\ HealthDone /\ "health-check" \in softFailed
  /\ "error" \in Range(probes) /\ "nonzero" \in Range(probes)

\* C32 (as claimed): during DeployApp the container-health wait polls at
\* most 30 times; the first 'healthy' ends the wait successfully; the first
\* 'unhealthy' aborts the run as a fatal failure whose error carries the
\* captured container logs; 30 polls showing neither let the pipeline
\* continue to ConfigureProxy.
C32_ContainerHealth ==
  /\ pc = "container-health" =>
       (i < ContainerMaxAttempts /\ inspected \in {"none", "starting"}
        /\ (inspected = "none" <=> i = 0))
  /\ inspected = "healthy" => (pc = "configure-nginx" /\ failure = NoFailure)
  /\ inspected = "unhealthy" =>
       /\ pc = "finally" /\ ~pending.success
       /\ failure.stage = "deploy-application"
       /\ failure.msg = Unhealthy
       /\ errors[Len(errors)] = Unhealthy
  /\ (inspected = "starting" /\ pc # "container-health") =>
       (pc = "configure-nginx" /\ failure = NoFailure)

\* C33 (as claimed): isConnected() is true only while the session's current
\* transport handle exists and has completed its handshake, under every
\* interleaving of connect(), disconnect(), the connection timer and the
\* transport's ready/error events: a late 'ready' of a handshake that has
\* timed out or was discarded never makes the session Connected.
C33_ConnectedIsCurrent ==
  ssh.connected =>
    /\ ssh.client # 0
    /\ ssh.transports[ssh.client] = "ready"
    /\ ssh.results[ssh.client] = "resolved"

\* C34 (as claimed): exec reports exit code 0 only when the remote command
\* exited with status 0; a command that ended without an exit status is
\* not reported as code 0, so execOrFail never treats such a command as
\* successful.
C34_ExitStatus ==
  (ex.pc = "done" /\ ex.outcome = "returned") =>
    /\ \A k \in 1..Len(ex.results) :
         (k = ex.started /\ ex.results[k].code = 0) => ex.remote.code = 0
    /\ ex.caller = "execOrFail" => ex.remote.code = 0

\* The snapshots the provider has made and reported so far (it numbers
\* them from the first value of nextSnap on)
Reported == 900..(nextSnap - 1)

\* C35 (as claimed): a snapshot id present in a deployment result is the id
\* of a snapshot that the provider reported for that resource (returned by
\* the provider or seen in listSnapshots), never a locally fabricated
\* value.
C35_SnapshotIdReal ==
  (Ended /\ outcome = "result" /\ result.snapshotId # Undef) =>
    result.snapshotId \in Reported

\* The calls of apiClient.orderVps made by the running call
OrderCalls == {k \in 1..Len(apiCalls) : apiCalls[k] = "orderVps"}

\* C36: one call of orderVps sends the order request at most once, and one
\* deploy() run calls orderVps at most once: polling, the exhaustion of the
\* polling and failures of later stages never place a second order.
C36_OrderOnce ==
  /\ ord.posts <= 1
  /\ ord.pc \in {"idle", "list-before", "post"} => ord.posts = 0
  /\ ord.pc \in {"sleep", "list"} => ord.posts = 1
  /\ ord.response # "none" => ord.posts = 1
  /\ ord.created # Undef => ord.posts = 1
  /\ entry \in {"deploy", "existing"} =>
       /\ Cardinality(OrderCalls) <= 1
       /\ (entry = "existing" \/ pc \in {"check-balance", "order-vps"}) =>
            OrderCalls = {}
       /\ runOrder # Undef => Cardinality(OrderCalls) = 1

\* C36 witness: the search of an accepted order was exhausted and orderVps
\* failed after its one request
C36_Witness ==
  /\ ord.pc = "done" /\ ord.outcome = "NotFound"
  /\ ord.sleeps = OrderMaxAttempts /\ ord.posts = 1

\* deploy() ordered a server, failed in a later stage and has returned
C36_LaterFailure ==
  /\ Ended /\ entry = "deploy" /\ outcome = "result" /\ ~result.success
  /\ failure.stage = "configure-nginx" /\ Cardinality(OrderCalls) = 1

\* C37 (as claimed): when two orderVps calls run concurrently against the
\* same provider account, each call returns the id of the resource created
\* by its own order, and the two returned ids are different.
C37_OwnResource ==
  (ord.outcome = "ok" /\ ord2.outcome = "ok") =>
    /\ ord.returned.serverId = ord.created
    /\ ord2.returned.serverId = ord2.created
    /\ ord.returned.serverId # ord2.returned.serverId

\* C38 (as claimed): a session creates at most one file-transfer
\* sub-channel between connect and disconnect, and a file operation uses it
\* only after it has been established: if establishing it fails, or while
\* a concurrent file operation is still establishing it, no file operation
\* proceeds on the unestablished sub-channel, and a later file operation
\* tries to establish it again.
C38_Step ==
  /\ ssh'.request = "sftp-connect" => ssh.sftpClient \notin {"connecting", "open"}
  /\ ssh'.request = "sftp-request" => ssh.sftpClient = "open"
  /\ (ssh'.op \in FileOps /\ ~NotConnected(ssh)
      /\ ssh.sftpClient = "unestablished") => ssh'.request = "sftp-connect"

C38_SubChannel == [][C38_Step]_vars

\* The attempts of the waitForSsh call that found the host unreachable: all
\* but the one that found the port open
Unreachable == 1..(IF wf.open THEN wf.attempt - 1 ELSE wf.attempt)

\* C39 (as claimed): waitForSsh invokes onRetry exactly once for every
\* probe attempt that finds the host unreachable, with the 1-based number
\* of that attempt, and never for the successful attempt.
C39_OnRetry ==
  /\ Range(wf.onRetry) = Unreachable
  /\ Len(wf.onRetry) = Cardinality(Unreachable)

\* C40 (as claimed): every result returned by deploy() or deployToExisting()
\* with success=false has healthCheckPassed=false, and every result in
\* which a snapshot id is present has success=true and
\* healthCheckPassed=true, for any sequence of calls on one orchestrator.
C40_ResultConsistent ==
  (Ended /\ outcome = "result") =>
    /\ ~result.success => ~result.healthCheckPassed
    /\ result.snapshotId # Undef =>
         (result.success /\ result.healthCheckPassed)
====
